---------------------------- MODULE Spec2Model ----------------------------
(***************************************************************************)
(* Model of the Apps Script automations of the repository.                 *)
(*                                                                         *)
(* Part 1: "User Calendar Event Copier" (src/gas_gcal_pto_user_sync.js):   *)
(* setup2, sync2, findEvents2, shouldImportEvent2, importEvent2 and        *)
(* formatDateAsRFC3339_2, with the calendar provider, the script property  *)
(* store and the project triggers as the environment.                      *)
(*                                                                         *)
(* JavaScript strings are sequences of one-character strings, so that      *)
(* toLowerCase, indexOf, split and + are computed.  JavaScript objects are *)
(* records whose DOMAIN is the set of properties they have: a missing      *)
(* property is a missing field.  null / undefined of a local variable is   *)
(* the empty set and a value v is {v}.  Instants are integers, in ticks    *)
(* since 1970-01-01T00:00:00Z.                                             *)
(*                                                                         *)
(* Parts 2 to 6: the form, sheet and mail scripts: calendar delegation     *)
(* (src/unnamed/part_001, src/gas_gcal_delegation.js), calendar events     *)
(* from a sheet (src/GAS_gcal_gsheet.js), mail merge                       *)
(* (src/gas_gmail_merge_multiple_recipients.js), account monitoring        *)
(* (src/unnamed/part_000) and acceptance of calendar invites               *)
(* (src/gas_auto_accept_cal_invites.js).  Each has its own specification.  *)
(***************************************************************************)
EXTENDS Integers, Sequences, FiniteSets, TLC

(***************************************************************************)
(* Bounds of the model.                                                    *)
(***************************************************************************)
\* ticks per second: a Date has a finer resolution than the 'ss' of the
\* RFC3339 pattern and than the string form kept in the property store
TicksPerSec == 2
\* the clock never passes this tick
MaxClock == 2
\* sync passes per behaviour
MaxPasses == 2
\* disturbances per behaviour: a failing Calendar.Events.list call, a
\* failing Calendar.Events.import call or a modification of a source event
MaxDisturbances == 1
\* form submissions per behaviour
MaxSubmissions == 2
\* runs of a sheet script (createCalendarEvents, sendEmails, monitorAccounts)
\* per behaviour
MaxRuns == 2

(***************************************************************************)
(* Strings.                                                                *)
(***************************************************************************)
UpperCase ==
  <<"A","B","C","D","E","F","G","H","I","J","K","L","M",
    "N","O","P","Q","R","S","T","U","V","W","X","Y","Z">>

LowerCase ==
  <<"a","b","c","d","e","f","g","h","i","j","k","l","m",
    "n","o","p","q","r","s","t","u","v","w","x","y","z">>

\* String.prototype.toLowerCase, one character
LowerChar(c) ==
  IF \E i \in 1..Len(UpperCase) : UpperCase[i] = c
  THEN LowerCase[CHOOSE i \in 1..Len(UpperCase) : UpperCase[i] = c]
  ELSE c

\* String.prototype.toLowerCase
toLowerCase(s) == [i \in 1..Len(s) |-> LowerChar(s[i])]

\* String.prototype.indexOf: the first 0-based position of k in s, or -1
indexOf(s, k) ==
  LET hits == { i \in 0..(Len(s) - Len(k)) : SubSeq(s, i + 1, i + Len(k)) = k }
  IN  IF hits = {} THEN -1
      ELSE CHOOSE i \in hits : \A j \in hits : i <= j

\* email.split('@')[0]
SplitAt0(email) ==
  LET at == indexOf(email, <<"@">>)
  IN  IF at < 0 THEN email ELSE SubSeq(email, 1, at)

(***************************************************************************)
(* Objects and nullable values.                                            *)
(***************************************************************************)
Null == {}

Some(v) == {v}

The(s) == CHOOSE v \in s : TRUE

Has(obj, f) == f \in DOMAIN obj

SetField(obj, f, v) ==
  [x \in DOMAIN obj \cup {f} |-> IF x = f THEN v ELSE obj[x]]

DeleteField(obj, f) == [x \in DOMAIN obj \ {f} |-> obj[x]]

(***************************************************************************)
(* Time.                                                                   *)
(***************************************************************************)
TicksPerDay == TicksPerSec * 86400

\* new Date(event.start.dateTime || event.start.date): a dateTime is an
\* instant, a date (a day number) is midnight UTC of that day
StartInstant(start) ==
  IF Has(start, "dateTime") THEN start.dateTime ELSE start.date * TicksPerDay

\* Date.prototype.getUTCDay: 0 = Sunday .. 6 = Saturday; day 0 is a Thursday
getUTCDay(t) == ((t \div TicksPerDay) + 4) % 7

\* maxDate.setMonth(maxDate.getMonth() + n), with months of 30 days
AddMonths(t, n) == t + n * 30 * TicksPerDay

\* Utilities.formatDate(date, 'UTC', "yyyy-MM-dd'T'HH:mm:ssZ"): the text
\* names a whole second, so it is modelled as that count of seconds
formatDateAsRFC3339_2(date) == date \div TicksPerSec

\* the instant an RFC3339 text of whole seconds denotes
ParseRFC3339(secs) == secs * TicksPerSec

\* setProperty('lastRun', today) keeps String(today), which names a whole
\* second ("Thu Nov 05 2026 10:00:00 GMT+0000 (UTC)")
DateToString(date) == date \div TicksPerSec

\* new Date(lastRun) of such a text
DateFromString(secs) == secs * TicksPerSec

(***************************************************************************)
(* Configuration.                                                          *)
(***************************************************************************)
TEAM_CALENDAR_ID2 == <<"t","e","a","m">>

Alice == <<"a","l","@","x">>

Bob == <<"b","o","b","@","x">>

Carol == <<"c","@","x">>

\* the monitored users (placeholders in the source): two distinct addresses
USER_EMAILS2 == <<Alice, Bob>>

KEYWORDS2 ==
  << <<"p","t","o">>,
     <<"o","o","o">>,
     <<"o","u","t"," ","o","f"," ","o","f","f","i","c","e">>,
     <<"o","f","f","l","i","n","e">>,
     <<"v","a","c","a","t","i","o","n">>,
     <<"P","T","O">>,
     <<"O","u","t"," ","o","f"," ","o","f","f","i","c","e">> >>

MONTHS_IN_ADVANCE2 == 3

(***************************************************************************)
(* shouldImportEvent2                                                      *)
(***************************************************************************)
\* event.summary.toLowerCase() of an event without a summary is a TypeError
shouldImportEvent2Throws(event) == ~Has(event, "summary")

\* the attendees with attendee.self
SelfAttendees(event) == SelectSeq(event.attendees, LAMBDA a : a.self)

\* mutant: the accepted attendee need not be the user's own entry
shouldImportEvent2AnyAttendee(email, keyword, event) ==
  IF indexOf(toLowerCase(event.summary), keyword) < 0 THEN FALSE
  ELSE LET dayOfWeek == getUTCDay(StartInstant(event.start))
       IN  IF dayOfWeek = 0 \/ dayOfWeek = 6 THEN FALSE
           ELSE IF ~Has(event, "organizer") \/ event.organizer.email = email
                THEN TRUE
           ELSE IF ~Has(event, "attendees") THEN FALSE
           ELSE LET matching == event.attendees
                IN  Len(matching) > 0 /\ matching[1].responseStatus = "accepted"

\* mutant: only Sunday is excluded
shouldImportEvent2SundayOnly(email, keyword, event) ==
  IF indexOf(toLowerCase(event.summary), keyword) < 0 THEN FALSE
  ELSE LET dayOfWeek == getUTCDay(StartInstant(event.start))
       IN  IF dayOfWeek = 0 THEN FALSE
           ELSE IF ~Has(event, "organizer") \/ event.organizer.email = email
                THEN TRUE
           ELSE IF ~Has(event, "attendees") THEN FALSE
           ELSE LET matching == SelfAttendees(event)
                IN  Len(matching) > 0 /\ matching[1].responseStatus = "accepted"

\* mutant: the keyword is lower-cased as well
shouldImportEvent2LowersKeyword(email, keyword, event) ==
  IF indexOf(toLowerCase(event.summary), toLowerCase(keyword)) < 0 THEN FALSE
  ELSE LET dayOfWeek == getUTCDay(StartInstant(event.start))
       IN  IF dayOfWeek = 0 \/ dayOfWeek = 6 THEN FALSE
           ELSE IF ~Has(event, "organizer") \/ event.organizer.email = email
                THEN TRUE
           ELSE IF ~Has(event, "attendees") THEN FALSE
           ELSE LET matching == SelfAttendees(event)
                IN  Len(matching) > 0 /\ matching[1].responseStatus = "accepted"

shouldImportEvent2(email, keyword, event) ==
  IF indexOf(toLowerCase(event.summary), keyword) < 0 THEN FALSE
  ELSE LET dayOfWeek == getUTCDay(StartInstant(event.start))
       IN  IF dayOfWeek = 0 \/ dayOfWeek = 6 THEN FALSE
           ELSE IF ~Has(event, "organizer") \/ event.organizer.email = email
                THEN TRUE
           ELSE IF ~Has(event, "attendees") THEN FALSE
           ELSE LET matching == SelfAttendees(event)
                IN  Len(matching) > 0 /\ matching[1].responseStatus = "accepted"

(***************************************************************************)
(* importEvent2: the object handed to Calendar.Events.import               *)
(***************************************************************************)
\* '...' + event.summary: a missing summary concatenates as "undefined"
SummaryText(event) ==
  IF Has(event, "summary") THEN event.summary
  ELSE <<"u","n","d","e","f","i","n","e","d">>

NormalizeEventType(event) ==
  IF ~Has(event, "eventType") \/ event.eventType # "default"
  THEN DeleteField(DeleteField(SetField(event, "eventType", "default"),
                               "outOfOfficeProperties"),
                   "focusTimeProperties")
  ELSE event

\* mutant: the attendees are kept
MirroredEventKeepsAttendees(username, event) ==
  LET e1 == SetField(event, "summary",
                     <<"[">> \o username \o <<"]", " ">> \o SummaryText(event))
      e2 == SetField(e1, "organizer", [id |-> TEAM_CALENDAR_ID2])
  IN  NormalizeEventType(e2)

MirroredEvent(username, event) ==
  LET e1 == SetField(event, "summary",
                     <<"[">> \o username \o <<"]", " ">> \o SummaryText(event))
      e2 == SetField(e1, "organizer", [id |-> TEAM_CALENDAR_ID2])
      e3 == SetField(e2, "attendees", <<>>)
  IN  NormalizeEventType(e3)


(***************************************************************************)
(* State.                                                                  *)
(***************************************************************************)
VARIABLES
  triggers,          \* ScriptApp.getProjectTriggers(): the project's triggers
  scriptProperties,  \* PropertiesService.getScriptProperties()
  now,               \* the clock: the latest instant anything has observed
  calendars,         \* the provider: each user's events, in provider order
  pass,              \* the runs of sync2, by pass number: the locals of
                     \* sync2 and findEvents2, and what the run has done
  lastSetup,         \* how the latest setup2 call ended
  env,               \* how many disturbances have happened
  probe,             \* the input of a single predicate / transform check
  verdict,           \* what shouldImportEvent2 answered for the probe
  mirrored,          \* what importEvent2 handed to the import for the probe
  delegation,        \* the calendar delegation form: its sheet, the mails
                     \* sent, the calendar ACLs and the Calendar.Acl.insert calls
  schedule,          \* the publishing schedule: its rows, the script
                     \* properties, the events created and the run under way
  merge,             \* the mail merge: its sheet, the GmailApp.sendEmail
                     \* calls and the run under way
  monitor,           \* the account monitoring: the response sheet, the
                     \* Monitored Accounts sheet, the directory and the mails
  invites            \* the invite acceptance: the mailbox, the primary
                     \* calendar and the run under way

\* the state of the sync script and of its environment
syncVars ==
  <<triggers, scriptProperties, now, calendars, pass, lastSetup, env, probe,
    verdict, mirrored>>

\* the state of the form and sheet scripts
formVars == <<delegation, schedule, merge, monitor, invites>>

vars == <<syncVars, formVars>>

(***************************************************************************)
(* Sheets, cells and mail of the form and sheet scripts.                   *)
(***************************************************************************)
\* the value of a cell: nothing, a text, or an instant
EmptyCell == [kind |-> "empty", text |-> "", at |-> 0]

TextCell(s) == [kind |-> "text", text |-> s, at |-> 0]

StampCell(t) == [kind |-> "stamp", text |-> "", at |-> t]

Last(q) == q[Len(q)]

\* the delegation form before its first submission, run by the given script
DelegationIdle(script) ==
  [script   |-> script,
   sheet    |-> <<>>,   \* the response sheet: values (columns 1-4), completed (5)
   mailCalls |-> <<>>,  \* the MailApp.sendEmail calls, in order
   acl      |-> {},     \* the ACL rules of the calendars
   aclCalls |-> <<>>]   \* the Calendar.Acl.insert calls, in order

\* the publishing schedule before the first run of createCalendarEvents
ScheduleIdle(data, accessible) ==
  [data       |-> data,         \* the rows of A52:H
   accessible |-> accessible,   \* the calendars getCalendarById finds
   properties |-> [x \in {} |-> 0],  \* the script properties: eventId -> id
   created    |-> <<>>,         \* the events created in the calendars
   runs       |-> 0,            \* the runs started
   run        |-> [pc |-> "idle", i |-> 1, j |-> 1, today |-> 0]]

\* the mail merge before the first run of sendEmails
MergeIdle(sheet) ==
  [sheet |-> sheet,   \* the data rows: Recipients, Email Sent
   calls |-> <<>>,    \* the GmailApp.sendEmail calls, in order
   runs  |-> 0,       \* the runs started
   run   |-> [pc |-> "idle", no |-> 0, idx |-> 1, data |-> <<>>, out |-> <<>>]]

\* the account monitoring before the first submission, run by the given
\* script, with the given users in the directory
MonitorIdle(script, directory) ==
  [script    |-> script,
   responses |-> <<>>,      \* the response sheet: values (1-5), completed (6)
   list      |-> <<>>,      \* the rows of 'Monitored Accounts' under its header
   directory |-> directory, \* AdminDirectory.Users: suspended, archived
   dirCalls  |-> 0,         \* the calls of manageUserSuspension so far
   mailCalls |-> <<>>,      \* the MailApp.sendEmail calls, in order
   runs      |-> 0]         \* the runs of monitorAccounts

\* the mailbox and the primary calendar before the first run of
\* autoAcceptInvites
InvitesIdle(inbox, events) ==
  [inbox   |-> inbox,   \* the messages of the threads the search finds
   events  |-> events,  \* Calendar.Events of the primary calendar
   patches |-> <<>>,    \* the Calendar.Events.patch calls, in order
   handled |-> <<>>,    \* the attachments after which the message was
                        \* marked read and moved to trash
   runs    |-> 0,
   run     |-> [pc |-> "idle", mi |-> 1, ai |-> 1]]

\* no form or sheet script has run
FormsIdle ==
  /\ delegation = DelegationIdle("none")
  /\ schedule = ScheduleIdle(<<>>, {})
  /\ merge = MergeIdle(<<>>)
  /\ monitor = MonitorIdle("none", <<>>)
  /\ invites = InvitesIdle(<<>>, <<>>)

PassIds == 1..MaxPasses

(***************************************************************************)
(* The calendar provider (Calendar.Events.list).                           *)
(***************************************************************************)
\* items per page of a list response
PageSize == 2

\* the full-text match of q: any case, in the summary or the description
TextMatches(event, q) ==
  \/ Has(event, "summary")
     /\ indexOf(toLowerCase(event.summary), toLowerCase(q)) >= 0
  \/ Has(event, "description")
     /\ indexOf(toLowerCase(event.description), toLowerCase(q)) >= 0

ProviderMatches(event, params) ==
  /\ TextMatches(event, params.q)
  /\ StartInstant(event.start) >= ParseRFC3339(params.timeMin)
  /\ StartInstant(event.start) < ParseRFC3339(params.timeMax)
  /\ Has(params, "updatedMin") => event.updated >= ParseRFC3339(params.updatedMin)

\* the response to Calendar.Events.list(email, params)
EventsList(cals, email, params) ==
  LET all  == SelectSeq(cals[email], LAMBDA e : ProviderMatches(e, params))
      off  == IF params.pageToken = Null THEN 0 ELSE The(params.pageToken)
      last == IF off + PageSize < Len(all) THEN off + PageSize ELSE Len(all)
  IN  [items         |-> SubSeq(all, off + 1, last),
       nextPageToken |-> IF last < Len(all) THEN Some(last) ELSE Null]

(***************************************************************************)
(* findEvents2                                                             *)
(***************************************************************************)
\* mutant: updatedMin is never set
ListParamsNoUpdatedMin(keyword, start, end, optSince) ==
  [q           |-> keyword,
   timeMin     |-> formatDateAsRFC3339_2(start),
   timeMax     |-> formatDateAsRFC3339_2(end),
   showDeleted |-> TRUE]

\* mutant: the modified-since bound is sent with the first keyword only
ListParamsSinceFirstKeyword(keyword, start, end, optSince) ==
  LET params == [q           |-> keyword,
                 timeMin     |-> formatDateAsRFC3339_2(start),
                 timeMax     |-> formatDateAsRFC3339_2(end),
                 showDeleted |-> TRUE]
  IN  IF optSince # Null /\ keyword = KEYWORDS2[1]
      THEN SetField(params, "updatedMin", formatDateAsRFC3339_2(The(optSince)))
      ELSE params

\* the params object without its pageToken
ListParams(keyword, start, end, optSince) ==
  LET params == [q           |-> keyword,
                 timeMin     |-> formatDateAsRFC3339_2(start),
                 timeMax     |-> formatDateAsRFC3339_2(end),
                 showDeleted |-> TRUE]
  IN  IF optSince # Null
      THEN SetField(params, "updatedMin", formatDateAsRFC3339_2(The(optSince)))
      ELSE params

\* the first statement of findEvents2 for the pair (ui, ki)
BeginFind(r, ui, ki) ==
  [r EXCEPT !.pc = "list", !.ui = ui, !.ki = ki, !.pageToken = Null,
            !.events = <<>>, !.idx = 1, !.pages = <<>>, !.callFailed = FALSE]

\* the end of the keyword's forEach body: the next keyword, the next user,
\* or the statement after the loops
NextPair(r) ==
  IF r.ki < Len(KEYWORDS2) THEN BeginFind(r, r.ui, r.ki + 1)
  ELSE IF r.ui < Len(USER_EMAILS2) THEN BeginFind(r, r.ui + 1, 1)
  ELSE [r EXCEPT !.pc = "write"]

\* "return events" and the start of events.forEach in sync2
ReturnEvents(r) ==
  LET r1 == [r EXCEPT !.lastCall =
               Some([ui |-> r.ui, ki |-> r.ki, pages |-> r.pages,
                     failed |-> r.callFailed, result |-> r.events])]
  IN  IF r1.events = <<>> THEN NextPair(r1)
      ELSE [r1 EXCEPT !.pc = "import", !.idx = 1]

\* "while (pageToken)"
LoopOrReturn(r) == IF r.pageToken # Null THEN r ELSE ReturnEvents(r)

\* the catch block: log, then "continue", which goes to the loop condition
\* with pageToken and events as they were
OnListFailure(r) ==
  LoopOrReturn([r EXCEPT !.callFailed = TRUE,
                         !.failedPairs = @ \cup {<<r.ui, r.ki>>}])

\* mutant: "events = response.items.filter(...)", without the concat
OnListResponseNoConcat(r, response) ==
  LET email   == USER_EMAILS2[r.ui]
      keyword == KEYWORDS2[r.ki]
  IN  IF \E i \in 1..Len(response.items) :
           shouldImportEvent2Throws(response.items[i])
      THEN [r EXCEPT !.pc = "fault"]
      ELSE LoopOrReturn(
             [r EXCEPT !.events = SelectSeq(response.items,
                                   LAMBDA item : shouldImportEvent2(email, keyword, item)),
                       !.pageToken = response.nextPageToken,
                       !.pages = Append(@, SetField(response, "requested",
                                                    r.pageToken))])

\* mutant: an event already imported for the user under an earlier keyword
\* is dropped from the result
OnListResponseDedup(r, response) ==
  LET email   == USER_EMAILS2[r.ui]
      keyword == KEYWORDS2[r.ki]
      seen    == { r.imports[i].source.id :
                     i \in { j \in 1..Len(r.imports) : r.imports[j].ui = r.ui } }
  IN  IF \E i \in 1..Len(response.items) :
           shouldImportEvent2Throws(response.items[i])
      THEN [r EXCEPT !.pc = "fault"]
      ELSE LoopOrReturn(
             [r EXCEPT !.events = @ \o SelectSeq(response.items,
                                   LAMBDA item : /\ shouldImportEvent2(email, keyword, item)
                                                 /\ item.id \notin seen),
                       !.pageToken = response.nextPageToken,
                       !.pages = Append(@, SetField(response, "requested",
                                                    r.pageToken))])

\* the loop body after a response
OnListResponse(r, response) ==
  LET email   == USER_EMAILS2[r.ui]
      keyword == KEYWORDS2[r.ki]
  IN  IF \E i \in 1..Len(response.items) :
           shouldImportEvent2Throws(response.items[i])
      THEN [r EXCEPT !.pc = "fault"]
      ELSE LoopOrReturn(
             [r EXCEPT !.events = @ \o SelectSeq(response.items,
                                   LAMBDA item : shouldImportEvent2(email, keyword, item)),
                       !.pageToken = response.nextPageToken,
                       !.pages = Append(@, SetField(response, "requested",
                                                    r.pageToken))])

(***************************************************************************)
(* sync2                                                                   *)
(***************************************************************************)
\* getProperty('lastRun'), then lastRun ? new Date(lastRun) : null
ReadLastRun(props) ==
  IF Has(props, "lastRun") THEN Some(DateFromString(props.lastRun)) ELSE Null

IdlePass ==
  [pc |-> "idle", via |-> "none", today |-> 0, maxDate |-> 0, lastRun |-> Null,
   count |-> 0, ui |-> 1, ki |-> 1, pageToken |-> Null, events |-> <<>>,
   idx |-> 1,
   \* what the run has done so far:
   pages       |-> <<>>,   \* the responses of the findEvents2 call under way
   callFailed  |-> FALSE,  \* whether a list call of it has thrown
   failedPairs |-> {},     \* the (user, keyword) pairs with a list call that threw
   requests    |-> <<>>,   \* the list requests sent
   lastCall    |-> Null,   \* the findEvents2 call that returned last
   imports     |-> <<>>]   \* the Calendar.Events.import calls made

\* a run that has ended keeps its outcome; what it did is forgotten when
\* the next run starts
Forget(r) ==
  IF r.pc \in {"done", "fault"}
  THEN [IdlePass EXCEPT !.pc = r.pc, !.via = r.via, !.today = r.today,
                        !.lastRun = r.lastRun, !.count = r.count]
  ELSE r

\* sync2 up to the first findEvents2 call
BeginSync(via, today, props) ==
  BeginFind([IdlePass EXCEPT !.via = via, !.today = today,
                             !.maxDate = AddMonths(today, MONTHS_IN_ADVANCE2),
                             !.lastRun = ReadLastRun(props)],
            1, 1)

\* mutant: importEvent2 without its try / catch, a failed import ends the run
AfterImportUncaught(r, ok) ==
  IF ~ok THEN [r EXCEPT !.pc = "fault"]
  ELSE LET r1 == [r EXCEPT !.count = @ + 1, !.idx = @ + 1]
       IN  IF r1.idx > Len(r1.events) THEN NextPair(r1) ELSE r1

\* mutant: a failed import is tried again
AfterImportRetry(r, ok) ==
  IF ~ok THEN r
  ELSE LET r1 == [r EXCEPT !.count = @ + 1, !.idx = @ + 1]
       IN  IF r1.idx > Len(r1.events) THEN NextPair(r1) ELSE r1

\* the body of events.forEach after importEvent2 returned: importEvent2
\* catches what the import throws
AfterImport(r, ok) ==
  LET r1 == [r EXCEPT !.count = @ + 1, !.idx = @ + 1]
  IN  IF r1.idx > Len(r1.events) THEN NextPair(r1) ELSE r1

\* mutant: a stored value that is newer than today is kept
WriteLastRunKeepNewer(props, today) ==
  IF Has(props, "lastRun") /\ props.lastRun > DateToString(today) THEN props
  ELSE SetField(props, "lastRun", DateToString(today))

\* setProperty('lastRun', today)
WriteLastRun(props, today) == SetField(props, "lastRun", DateToString(today))

Running(r) == r.pc \in {"list", "catch", "import", "write"}

NoPassRunning == \A p \in PassIds : ~Running(pass[p])

\* the pass number of the next run of sync2
NextPass == Cardinality({p \in PassIds : pass[p].pc # "idle"}) + 1

(***************************************************************************)
(* setup2                                                                  *)
(***************************************************************************)
\* mutant: the guard is off by one
setup2RejectsOffByOne(trigs) == Len(trigs) > 1

\* "if (triggers.length > 0) throw"
setup2Rejects(trigs) == Len(trigs) > 0

\* ScriptApp.newTrigger('sync2').timeBased().everyHours(1).create()
SyncTrigger == [handler |-> "sync2", everyHours |-> 1]


(***************************************************************************)
(* Source events of the model's calendars.                                 *)
(***************************************************************************)
\* alice's own out-of-office entry "PTO", on a Monday
EvA1 ==
  [id |-> "a1", summary |-> <<"P","T","O">>, start |-> [date |-> 4],
   eventType |-> "outOfOffice", outOfOfficeProperties |-> "decline",
   updated |-> 0]

\* bob's own "pto", on a Tuesday
EvB1 ==
  [id |-> "b1", summary |-> <<"p","t","o">>, start |-> [date |-> 5],
   organizer |-> [email |-> Bob], eventType |-> "default", updated |-> 0]

\* carol's "Team PTO" on a Saturday, accepted by bob
EvB2 ==
  [id |-> "b2", summary |-> <<"T","e","a","m"," ","P","T","O">>,
   start |-> [dateTime |-> 2 * TicksPerDay + 1],
   organizer |-> [email |-> Carol],
   attendees |-> <<[self |-> TRUE, responseStatus |-> "accepted"]>>,
   eventType |-> "default", updated |-> 0]

\* carol's "ooo pto" on a Wednesday, accepted by bob
EvB3 ==
  [id |-> "b3", summary |-> <<"o","o","o"," ","p","t","o">>,
   start |-> [dateTime |-> 6 * TicksPerDay + 1],
   organizer |-> [email |-> Carol],
   attendees |-> <<[self |-> FALSE, responseStatus |-> "accepted"],
                   [self |-> TRUE, responseStatus |-> "accepted"]>>,
   eventType |-> "focusTime", focusTimeProperties |-> "mute", updated |-> 0]

\* carol's "pto" on a Thursday, declined by bob
EvB4 ==
  [id |-> "b4", summary |-> <<"p","t","o">>, start |-> [date |-> 7],
   organizer |-> [email |-> Carol],
   attendees |-> <<[self |-> TRUE, responseStatus |-> "declined"]>>,
   eventType |-> "default", updated |-> 0]

\* an untitled event of bob whose description mentions pto
EvB5 ==
  [id |-> "b5", description |-> <<"p","t","o">>, start |-> [date |-> 8],
   organizer |-> [email |-> Bob], eventType |-> "default", updated |-> 0]

\* the calendars a behaviour may start from
CalendarChoices ==
  { [u \in {Alice, Bob} |-> IF u = Alice THEN <<EvA1>> ELSE <<EvB1, EvB2, EvB3>>],
    [u \in {Alice, Bob} |-> IF u = Alice THEN <<EvA1>> ELSE <<EvB3, EvB4, EvB5>>] }

(***************************************************************************)
(* Actions of the sync script.                                             *)
(***************************************************************************)
ProbeIdle == /\ probe = Null /\ verdict = "none" /\ mirrored = Null

Init ==
  /\ triggers = <<>>
  /\ scriptProperties = [x \in {} |-> 0]
  /\ now = 0
  /\ calendars \in CalendarChoices
  /\ pass = [p \in PassIds |-> IdlePass]
  /\ lastSetup = "none"
  /\ env = 0
  /\ ProbeIdle
  /\ FormsIdle

\* setup2 is called while a trigger exists: it throws
Setup2Rejected ==
  /\ NoPassRunning
  /\ setup2Rejects(triggers)
  /\ lastSetup' = "error"
  /\ UNCHANGED <<triggers, scriptProperties, now, calendars, pass, env, probe, verdict, mirrored>>
  /\ UNCHANGED formVars

\* setup2 creates the trigger and runs the first sync2, at instant today
Setup2(today) ==
  /\ NoPassRunning
  /\ NextPass \in PassIds
  /\ ~setup2Rejects(triggers)
  /\ triggers' = Append(triggers, SyncTrigger)
  /\ lastSetup' = "created"
  /\ now' = today
  /\ pass' = [p \in PassIds |->
                IF p = NextPass THEN BeginSync("setup2", today, scriptProperties)
                ELSE Forget(pass[p])]
  /\ UNCHANGED <<scriptProperties, calendars, env, probe, verdict,
                 mirrored>>
  /\ UNCHANGED formVars

\* the hourly trigger runs sync2, at instant today
TriggerFires(today) ==
  /\ \E i \in 1..Len(triggers) : triggers[i].handler = "sync2"
  /\ NoPassRunning
  /\ NextPass \in PassIds
  /\ now' = today
  /\ pass' = [p \in PassIds |->
                IF p = NextPass THEN BeginSync("trigger", today, scriptProperties)
                ELSE Forget(pass[p])]
  /\ UNCHANGED <<triggers, scriptProperties, calendars, lastSetup,
                 env, probe, verdict, mirrored>>
  /\ UNCHANGED formVars

\* the request the pass is about to send
CurrentParams(r) ==
  SetField(ListParams(KEYWORDS2[r.ki], r.today, r.maxDate, r.lastRun),
           "pageToken", r.pageToken)

Requested(r) ==
  [r EXCEPT !.requests =
     Append(@, [ui |-> r.ui, ki |-> r.ki, pageToken |-> r.pageToken,
                updatedMin |-> IF Has(CurrentParams(r), "updatedMin")
                               THEN Some(CurrentParams(r).updatedMin)
                               ELSE Null])]

\* one iteration of the do-while of findEvents2: the list call answers
ListSucceeds(p) ==
  /\ pass[p].pc = "list"
  /\ pass' = [pass EXCEPT ![p] =
       OnListResponse(Requested(pass[p]),
                      EventsList(calendars, USER_EMAILS2[pass[p].ui],
                                 CurrentParams(pass[p])))]
  /\ UNCHANGED <<triggers, scriptProperties, now, calendars, lastSetup, env, probe, verdict, mirrored>>
  /\ UNCHANGED formVars

\* one iteration of the do-while of findEvents2: the list call throws
ListFails(p) ==
  /\ pass[p].pc = "list"
  /\ env < MaxDisturbances
  /\ env' = env + 1
  /\ pass' = [pass EXCEPT ![p] = OnListFailure(Requested(pass[p]))]
  /\ UNCHANGED <<triggers, scriptProperties, now, calendars, lastSetup, probe, verdict, mirrored>>
  /\ UNCHANGED formVars

\* one call of importEvent2 from events.forEach
ImportCall(r, ok) ==
  [ui |-> r.ui, ki |-> r.ki, source |-> r.events[r.idx],
   event |-> MirroredEvent(SplitAt0(USER_EMAILS2[r.ui]), r.events[r.idx]),
   calendarId |-> TEAM_CALENDAR_ID2, ok |-> ok]

Imported(r, ok) == [r EXCEPT !.imports = Append(@, ImportCall(r, ok))]

ImportSucceeds(p) ==
  /\ pass[p].pc = "import"
  /\ pass' = [pass EXCEPT ![p] = AfterImport(Imported(pass[p], TRUE), TRUE)]
  /\ UNCHANGED <<triggers, scriptProperties, now, calendars, lastSetup, env,
                 probe, verdict, mirrored>>
  /\ UNCHANGED formVars

ImportFails(p) ==
  /\ pass[p].pc = "import"
  /\ env < MaxDisturbances
  /\ env' = env + 1
  /\ pass' = [pass EXCEPT ![p] = AfterImport(Imported(pass[p], FALSE), FALSE)]
  /\ UNCHANGED <<triggers, scriptProperties, now, calendars, lastSetup,
                 probe, verdict, mirrored>>
  /\ UNCHANGED formVars

\* the end of sync2: the watermark is written and the count logged
WriteWatermark(p) ==
  /\ pass[p].pc = "write"
  /\ scriptProperties' = WriteLastRun(scriptProperties, pass[p].today)
  /\ pass' = [pass EXCEPT ![p].pc = "done"]
  /\ UNCHANGED <<triggers, now, calendars, lastSetup, env, probe,
                 verdict, mirrored>>
  /\ UNCHANGED formVars

\* a user's event is modified: the provider stamps it with the instant of
\* the modification, which is no earlier than the start of the latest run
ModifyEvent(u, i) ==
  /\ env < MaxDisturbances
  /\ env' = env + 1
  /\ calendars' = [calendars EXCEPT ![u][i] = [@ EXCEPT !.updated = now]]
  /\ UNCHANGED <<triggers, scriptProperties, now, pass, lastSetup, probe,
                 verdict, mirrored>>
  /\ UNCHANGED formVars

Next ==
  \/ Setup2Rejected
  \/ \E today \in now..MaxClock : Setup2(today)
  \/ \E today \in now..MaxClock : TriggerFires(today)
  \/ \E p \in PassIds : ListSucceeds(p)
  \/ \E p \in PassIds : ListFails(p)
  \/ \E p \in PassIds : ImportSucceeds(p)
  \/ \E p \in PassIds : ImportFails(p)
  \/ \E p \in PassIds : WriteWatermark(p)
  \/ \E u \in DOMAIN calendars : \E i \in 1..Len(calendars[u]) : ModifyEvent(u, i)

Spec == Init /\ [][Next]_vars

(***************************************************************************)
(* The sync script when runs of sync2 overlap: nothing in sync2 looks for  *)
(* a run under way, so a run started by hand, or by a trigger that fires   *)
(* while the run before it has not ended, begins like any other.           *)
(***************************************************************************)
\* sync2 starts, at instant today, while another run is under way
OverlappingRun(today) ==
  /\ ~NoPassRunning
  /\ NextPass \in PassIds
  /\ now' = today
  /\ pass' = [p \in PassIds |->
                IF p = NextPass THEN BeginSync("overlap", today, scriptProperties)
                ELSE Forget(pass[p])]
  /\ UNCHANGED <<triggers, scriptProperties, calendars, lastSetup,
                 env, probe, verdict, mirrored>>
  /\ UNCHANGED formVars

\* the overlap is studied without failing calls and with one source event
InitOverlap ==
  /\ triggers = <<>>
  /\ scriptProperties = [x \in {} |-> 0]
  /\ now = 0
  /\ calendars = [u \in {Alice, Bob} |-> IF u = Alice THEN <<EvA1>> ELSE <<>>]
  /\ pass = [p \in PassIds |-> IdlePass]
  /\ lastSetup = "none"
  /\ env = 0
  /\ ProbeIdle
  /\ FormsIdle

NextOverlap ==
  \/ \E today \in now..MaxClock : Setup2(today)
  \/ \E today \in now..MaxClock : TriggerFires(today)
  \/ \E today \in now..MaxClock : OverlappingRun(today)
  \/ \E p \in PassIds : ListSucceeds(p)
  \/ \E p \in PassIds : ImportSucceeds(p)
  \/ \E p \in PassIds : WriteWatermark(p)

SpecOverlap == InitOverlap /\ [][NextOverlap]_vars


(***************************************************************************)
(* The sync script with a provider whose failures last.  A disturbance of  *)
(* the list calls is an episode: once a list call of a findEvents2 call    *)
(* has thrown, any later list call of the same findEvents2 call may throw  *)
(* as well.  The catch block of findEvents2 is a step of its own here: the *)
(* call throws, the catch block logs and continues with the loop           *)
(* condition (the failing calls are not added to the history of requests). *)
(* The run keeps executing (weak fairness of its steps); whether a call    *)
(* answers or throws is the provider's choice.                             *)
(***************************************************************************)
\* Calendar.Events.list throws: control reaches the catch block
ListThrows(p) ==
  /\ pass[p].pc = "list"
  /\ pass[p].callFailed \/ env < MaxDisturbances
  /\ env' = IF pass[p].callFailed THEN env ELSE env + 1
  /\ pass' = [pass EXCEPT ![p].pc = "catch"]
  /\ UNCHANGED <<triggers, scriptProperties, now, calendars, lastSetup,
                 probe, verdict, mirrored>>
  /\ UNCHANGED formVars

\* console.error(...); continue: the loop condition is evaluated next
CatchContinues(p) ==
  /\ pass[p].pc = "catch"
  /\ pass' = [pass EXCEPT ![p] = OnListFailure([pass[p] EXCEPT !.pc = "list"])]
  /\ UNCHANGED <<triggers, scriptProperties, now, calendars, lastSetup, env,
                 probe, verdict, mirrored>>
  /\ UNCHANGED formVars

\* one run, the one setup2 starts, is followed
NextUnreliable ==
  \/ \E today \in now..MaxClock : Setup2(today)
  \/ \E p \in PassIds : ListSucceeds(p)
  \/ \E p \in PassIds : ListThrows(p)
  \/ \E p \in PassIds : CatchContinues(p)
  \/ \E p \in PassIds : ImportSucceeds(p)
  \/ \E p \in PassIds : ImportFails(p)
  \/ \E p \in PassIds : WriteWatermark(p)

\* a run that has a next statement executes it
RunsGoOn ==
  \A p \in PassIds :
    /\ WF_vars(ListSucceeds(p) \/ ListThrows(p))
    /\ WF_vars(CatchContinues(p))
    /\ WF_vars(ImportSucceeds(p) \/ ImportFails(p))
    /\ WF_vars(WriteWatermark(p))

SpecUnreliable == Init /\ [][NextUnreliable]_vars /\ RunsGoOn


(***************************************************************************)
(* shouldImportEvent2 and importEvent2 on their own: the inputs are drawn  *)
(* from ProbeEvents, Decide applies the predicate and Mirror the           *)
(* transform of importEvent2.                                              *)
(***************************************************************************)
ProbeSummaries ==
  { <<"p","t","o">>, <<"P","T","O">>,
    <<"o","o","o"," ","v","a","c","a","t","i","o","n">>,
    <<"O","f","f","l","i","n","e">>, <<"l","u","n","c","h">> }

\* all-day starts on each day of a week, and the last tick of a Friday and
\* of a Sunday
ProbeStarts ==
  { [date |-> d] : d \in 0..6 }
    \cup { [dateTime |-> 2 * TicksPerDay - 1], [dateTime |-> 4 * TicksPerDay - 1] }

ProbeAttendeeLists ==
  { <<>>,
    <<[self |-> TRUE, responseStatus |-> "accepted"]>>,
    <<[self |-> TRUE, responseStatus |-> "declined"]>>,
    <<[self |-> TRUE, responseStatus |-> "needsAction"]>>,
    <<[self |-> TRUE, responseStatus |-> "tentative"]>>,
    <<[self |-> FALSE, responseStatus |-> "accepted"]>>,
    <<[self |-> FALSE, responseStatus |-> "accepted"],
      [self |-> TRUE, responseStatus |-> "accepted"]>>,
    <<[self |-> FALSE, responseStatus |-> "accepted"],
      [self |-> TRUE, responseStatus |-> "declined"]>> }

\* the type-dependent properties of an event
ProbeTypes ==
  { [x \in {} |-> 0],
    [eventType |-> "default"],
    [eventType |-> "outOfOffice", outOfOfficeProperties |-> "decline"],
    [eventType |-> "focusTime", focusTimeProperties |-> "mute"],
    [eventType |-> "workingLocation", workingLocationProperties |-> "home"] }

\* the record with the fields of both
Merge(a, b) ==
  [x \in DOMAIN a \cup DOMAIN b |-> IF x \in DOMAIN a THEN a[x] ELSE b[x]]

ProbeEvents ==
  LET core == { [id |-> "e", start |-> st, updated |-> 0] : st \in ProbeStarts }
      sums == {[x \in {} |-> 0]} \cup { [summary |-> sm] : sm \in ProbeSummaries }
      orgs == {[x \in {} |-> 0]}
                \cup { [organizer |-> [email |-> o]] : o \in {Bob, Carol} }
      atts == {[x \in {} |-> 0]}
                \cup { [attendees |-> a] : a \in ProbeAttendeeLists }
  IN  { Merge(Merge(Merge(Merge(c, sm), o), a), t) :
          c \in core, sm \in sums, o \in orgs, a \in atts, t \in ProbeTypes }

ProbeKeywords == { KEYWORDS2[i] : i \in 1..Len(KEYWORDS2) }

InitFilter ==
  /\ triggers = <<>>
  /\ scriptProperties = [x \in {} |-> 0]
  /\ now = 0
  /\ calendars = [u \in {Alice, Bob} |-> <<>>]
  /\ pass = [p \in PassIds |-> IdlePass]
  /\ lastSetup = "none"
  /\ env = 0
  /\ \E u \in {Alice, Bob}, k \in ProbeKeywords, e \in ProbeEvents :
       probe = Some([email |-> u, keyword |-> k, event |-> e])
  /\ verdict = "none"
  /\ mirrored = Null
  /\ FormsIdle

\* the filter callback of findEvents2 on the probe
Decide ==
  /\ verdict = "none"
  /\ verdict' =
       IF shouldImportEvent2Throws(The(probe).event) THEN "TypeError"
       ELSE IF shouldImportEvent2(The(probe).email, The(probe).keyword,
                                  The(probe).event)
            THEN "true" ELSE "false"
  /\ UNCHANGED <<triggers, scriptProperties, now, calendars, pass, lastSetup,
                 env, probe, mirrored>>
  /\ UNCHANGED formVars

\* importEvent2 on the probe, up to the import call
Mirror ==
  /\ mirrored = Null
  /\ mirrored' = Some(MirroredEvent(SplitAt0(The(probe).email), The(probe).event))
  /\ UNCHANGED <<triggers, scriptProperties, now, calendars, pass, lastSetup,
                 env, probe, verdict>>
  /\ UNCHANGED formVars

NextFilter == Decide \/ Mirror

SpecFilter == InitFilter /\ [][NextFilter]_vars


(***************************************************************************)
(* Part 2: calendar delegation by form (src/unnamed/part_001, and its      *)
(* earlier version src/gas_gcal_delegation.js, which has no allowed list). *)
(* A submission adds a row to the response sheet and runs onFormSubmit.    *)
(***************************************************************************)
\* the sync script has not been set up and is not running
SyncIdle ==
  /\ triggers = <<>>
  /\ scriptProperties = [x \in {} |-> 0]
  /\ now = 0
  /\ calendars = [u \in {Alice, Bob} |-> <<>>]
  /\ pass = [p \in PassIds |-> IdlePass]
  /\ lastSetup = "none"
  /\ env = 0
  /\ ProbeIdle

\* var allowedEmails = ["Email_1", "Email_2"]
DelegationAllowedEmails == {"Email_1", "Email_2"}

\* mutant: everybody is allowed
DelegationIsAllowedAnyone(email) == TRUE

\* allowedEmails.includes(yourEmail)
DelegationIsAllowed(email) == email \in DelegationAllowedEmails

\* Utilities.formatDate(date, tz, "yyyy-MM-dd HH:mm:ss"): a whole second
FormatTimestamp(t) == (t \div TicksPerSec) * TicksPerSec

\* MailApp.sendEmail(to, subject, body); ok is whether the call returned
SendEmail(d, to, subject, ok) ==
  [d EXCEPT !.mailCalls = Append(@, [to |-> to, subject |-> subject, ok |-> ok])]

\* sheet.getRange(row, 5).setValue(cell)
SetCompleted(d, row, cell) == [d EXCEPT !.sheet[row].completed = cell]

\* Calendar.Acl.insert(resource, calendarOwnerEmail)
AclInsert(d, calendarOwnerEmail, authorizedUserEmail, throws) ==
  [d EXCEPT
     !.aclCalls = Append(@, [calendarId |-> calendarOwnerEmail,
                             scope |-> [type |-> "user", value |-> authorizedUserEmail],
                             role |-> "owner", ok |-> ~throws]),
     !.acl = IF throws THEN @
             ELSE @ \cup {<<calendarOwnerEmail, authorizedUserEmail, "owner">>}]

\* mutant: the function returns true whatever the insert did
addDelegateAlwaysTrue(d, calendarOwnerEmail, authorizedUserEmail, throws) ==
  [d       |-> AclInsert(d, calendarOwnerEmail, authorizedUserEmail, throws),
   success |-> TRUE]

\* the state after the call and the value returned: what the insert throws
\* is caught
addDelegateToCalendarUsingServiceAccount(d, calendarOwnerEmail, authorizedUserEmail, throws) ==
  [d       |-> AclInsert(d, calendarOwnerEmail, authorizedUserEmail, throws),
   success |-> ~throws]

sendEmailNotification(d, yourEmail, success, ok) ==
  SendEmail(d, yourEmail,
            IF success THEN "Calendar Delegation Successful"
            ELSE "Calendar Delegation Failed", ok)

\* the part of both versions after the call of addDelegate...: the cell, then
\* the notification; the result is the state and whether the mail call threw
DelegationComplete(d, lastRow, yourEmail, success, t, mailThrows) ==
  LET d1 == IF success THEN SetCompleted(d, lastRow, StampCell(FormatTimestamp(t)))
            ELSE d
  IN  sendEmailNotification(d1, yourEmail, success, ~mailThrows)

\* onFormSubmit of src/unnamed/part_001, for the event e at instant t
onFormSubmit(d, e, t, insertThrows, mailThrows) ==
  LET lastRow             == Len(d.sheet)
      yourEmail           == e.values[2]
      calendarOwnerEmail  == e.values[3]
      authorizedUserEmail == e.values[4]
  IN  IF ~DelegationIsAllowed(yourEmail)
      THEN SendEmail(SetCompleted(d, lastRow, TextCell("Not Authorized")),
                     yourEmail, "Unauthorized Access", ~mailThrows)
      ELSE LET a  == addDelegateToCalendarUsingServiceAccount(
                       d, calendarOwnerEmail, authorizedUserEmail, insertThrows)
               d2 == DelegationComplete(a.d, lastRow, yourEmail, a.success, t,
                                        mailThrows)
           IN  IF mailThrows
               THEN SendEmail(d2, "Email_3",
                              "Script Failure Alert: Gcal Delegation", TRUE)
               ELSE d2

\* onFormSubmit of src/gas_gcal_delegation.js: the values are read back
\* from the last row, and nobody is turned away
onFormSubmitV1(d, t, insertThrows, mailThrows) ==
  LET lastRow             == Len(d.sheet)
      yourEmail           == d.sheet[lastRow].values[2]
      calendarOwnerEmail  == d.sheet[lastRow].values[3]
      authorizedUserEmail == d.sheet[lastRow].values[4]
      a == addDelegateToCalendarUsingServiceAccount(
             d, calendarOwnerEmail, authorizedUserEmail, insertThrows)
  IN  DelegationComplete(a.d, lastRow, yourEmail, a.success, t, mailThrows)

\* the people who submit the delegation form
DelegationSubmitters == {"Email_1", "email_1", "mallory"}

\* the form event of a submission at instant t
DelegationEvents(t) ==
  { [values |-> <<FormatTimestamp(t), who, "owner", user>>] :
      who \in DelegationSubmitters, user \in {"d1", "d2"} }

\* the form adds the response as the last row of the sheet
AppendResponse(d, e) ==
  [d EXCEPT !.sheet = Append(@, [values |-> e.values, completed |-> EmptyCell])]

InitDelegation ==
  /\ SyncIdle
  /\ schedule = ScheduleIdle(<<>>, {})
  /\ merge = MergeIdle(<<>>)
  /\ monitor = MonitorIdle("none", <<>>)
  /\ invites = InvitesIdle(<<>>, <<>>)
  /\ delegation \in { DelegationIdle("part_001"),
                      DelegationIdle("gas_gcal_delegation.js") }

\* a submission, handled by onFormSubmit of src/unnamed/part_001
DelegationSubmitted(e, t, insertThrows, mailThrows) ==
  /\ delegation.script = "part_001"
  /\ Len(delegation.sheet) < MaxSubmissions
  /\ mailThrows => env < MaxDisturbances
  /\ env' = IF mailThrows THEN env + 1 ELSE env
  /\ now' = t
  /\ delegation' = onFormSubmit(AppendResponse(delegation, e), e, t,
                                insertThrows, mailThrows)
  /\ UNCHANGED <<triggers, scriptProperties, calendars, pass, lastSetup, probe,
                 verdict, mirrored>>
  /\ UNCHANGED <<schedule, merge, monitor, invites>>

\* a submission, handled by onFormSubmit of src/gas_gcal_delegation.js
DelegationSubmittedV1(e, t, insertThrows, mailThrows) ==
  /\ delegation.script = "gas_gcal_delegation.js"
  /\ Len(delegation.sheet) < MaxSubmissions
  /\ mailThrows => env < MaxDisturbances
  /\ env' = IF mailThrows THEN env + 1 ELSE env
  /\ now' = t
  /\ delegation' = onFormSubmitV1(AppendResponse(delegation, e), t,
                                  insertThrows, mailThrows)
  /\ UNCHANGED <<triggers, scriptProperties, calendars, pass, lastSetup, probe,
                 verdict, mirrored>>
  /\ UNCHANGED <<schedule, merge, monitor, invites>>

NextDelegation ==
  \/ \E t \in now..MaxClock : \E e \in DelegationEvents(t) :
       \E insertThrows, mailThrows \in BOOLEAN :
         DelegationSubmitted(e, t, insertThrows, mailThrows)
  \/ \E t \in now..MaxClock : \E e \in DelegationEvents(t) :
       \E insertThrows, mailThrows \in BOOLEAN :
         DelegationSubmittedV1(e, t, insertThrows, mailThrows)

SpecDelegation == InitDelegation /\ [][NextDelegation]_vars


(***************************************************************************)
(* Part 3: calendar events from the publishing schedule                    *)
(* (src/GAS_gcal_gsheet.js).  A run of createCalendarEvents goes through   *)
(* the rows and, for each row it keeps, through emailAddresses; one step   *)
(* is one call of the forEach callback.                                    *)
(***************************************************************************)
emailAddresses == <<"email_1@domain.com", "email_2@omain.com", "email_3omain.com">>

\* the day of an instant: new Date(y, m, d) of it
DayOf(t) == t \div TicksPerDay

\* the row is 'Dubbed' and its date is not before today
RowKept(row, today) == row.class = "Dubbed" /\ ~(row.date < today)

\* the for loop up to the next row that is kept, from row i on
RECURSIVE SeekRow(_, _)
SeekRow(s, i) ==
  IF i > Len(s.data) THEN [s EXCEPT !.run.pc = "done", !.run.i = i, !.run.j = 1]
  ELSE IF RowKept(s.data[i], s.run.today)
       THEN [s EXCEPT !.run.pc = "rows", !.run.i = i, !.run.j = 1]
  ELSE SeekRow(s, i + 1)

\* var eventId = dateStr + '-' + email
EventId(row, email) == <<row.date, email>>

\* the callback of emailAddresses.forEach for a row: the try block up to
\* the statement that throws, if one does
forEachBody(s, row, email, outcome) ==
  LET eventId == EventId(row, email)
  IN  IF Has(s.properties, eventId) THEN s
      ELSE IF email \notin s.accessible THEN s
      ELSE IF outcome = "createThrows" THEN s
      ELSE LET id == Len(s.created) + 1
               s1 == [s EXCEPT !.created = Append(@,
                        [id |-> id, calendar |-> email, date |-> row.date,
                         title |-> <<"Post-launch checks (dubbing) ", row.title>>,
                         hour |-> 10, reminder |-> FALSE])]
           IN  IF outcome = "reminderThrows" THEN s1
               ELSE LET s2 == [s1 EXCEPT !.created[id].reminder = TRUE]
                    IN  IF outcome = "setPropertyThrows" THEN s2
                        ELSE [s2 EXCEPT !.properties = SetField(@, eventId, id)]

\* the callback reaches the calendar calls
ReachesCalls(s) ==
  /\ ~Has(s.properties, EventId(s.data[s.run.i], emailAddresses[s.run.j]))
  /\ emailAddresses[s.run.j] \in s.accessible

\* after the callback: the next address, or the next row that is kept
AfterForEachBody(s) ==
  IF s.run.j < Len(emailAddresses) THEN [s EXCEPT !.run.j = @ + 1]
  ELSE SeekRow(s, s.run.i + 1)

\* the rows of the sheet: two rows of the same day, a row that is not
\* 'Dubbed' and a row of a day gone by
ScheduleData ==
  << [date |-> 1, class |-> "Dubbed", title |-> "a"],
     [date |-> 2, class |-> "Subbed", title |-> "b"],
     [date |-> 1, class |-> "Dubbed", title |-> "c"],
     [date |-> -1, class |-> "Dubbed", title |-> "d"] >>

InitSchedule ==
  /\ SyncIdle
  /\ delegation = DelegationIdle("none")
  /\ merge = MergeIdle(<<>>)
  /\ monitor = MonitorIdle("none", <<>>)
  /\ invites = InvitesIdle(<<>>, <<>>)
  /\ \E accessible \in { {emailAddresses[1], emailAddresses[2]},
                         {emailAddresses[1]} } :
       schedule = ScheduleIdle(ScheduleData, accessible)

\* createCalendarEvents starts, at instant t
CreateCalendarEventsStarts(t) ==
  /\ schedule.run.pc # "rows"
  /\ schedule.runs < MaxRuns
  /\ now' = t
  /\ schedule' = SeekRow([schedule EXCEPT !.runs = @ + 1,
                                          !.run.today = DayOf(t)], 1)
  /\ UNCHANGED <<triggers, scriptProperties, calendars, pass, lastSetup, env,
                 probe, verdict, mirrored, delegation, merge, monitor, invites>>

\* one call of the callback in which nothing throws
CallbackReturns ==
  /\ schedule.run.pc = "rows"
  /\ schedule' = AfterForEachBody(
       forEachBody(schedule, schedule.data[schedule.run.i],
                   emailAddresses[schedule.run.j], "ok"))
  /\ UNCHANGED <<syncVars, delegation, merge, monitor, invites>>

\* one call of the callback in which a calendar or property call throws
CallbackCatches(outcome) ==
  /\ schedule.run.pc = "rows"
  /\ ReachesCalls(schedule)
  /\ env < MaxDisturbances
  /\ env' = env + 1
  /\ schedule' = AfterForEachBody(
       forEachBody(schedule, schedule.data[schedule.run.i],
                   emailAddresses[schedule.run.j], outcome))
  /\ UNCHANGED <<triggers, scriptProperties, now, calendars, pass, lastSetup,
                 probe, verdict, mirrored, delegation, merge, monitor, invites>>

NextSchedule ==
  \/ \E t \in now..MaxClock : CreateCalendarEventsStarts(t)
  \/ CallbackReturns
  \/ \E outcome \in {"createThrows", "reminderThrows", "setPropertyThrows"} :
       CallbackCatches(outcome)

SpecSchedule == InitSchedule /\ [][NextSchedule]_vars


(***************************************************************************)
(* Part 4: mail merge (src/gas_gmail_merge_multiple_recipients.js).  A run *)
(* of sendEmails reads the sheet, goes through the rows (one step is one   *)
(* call of the forEach callback) and writes the column back at its end.    *)
(***************************************************************************)
\* the callback of obj.forEach for the row at run.idx of the values read;
\* sendThrows is whether GmailApp.sendEmail (or the template fill) throws
mergeCallback(m, t, sendThrows) ==
  LET row == m.run.data[m.run.idx]
  IN  IF row.sent = EmptyCell
      THEN [m EXCEPT
              !.calls = Append(@, [run |-> m.run.no, row |-> m.run.idx,
                                   to |-> row.recipients, ok |-> ~sendThrows]),
              !.run.out = Append(@, IF sendThrows THEN TextCell("e.message")
                                    ELSE StampCell(t)),
              !.run.idx = @ + 1]
      ELSE [m EXCEPT !.run.out = Append(@, row.sent), !.run.idx = @ + 1]

\* the end of forEach: the statement after it is the write
AfterMergeCallback(m) ==
  IF m.run.idx > Len(m.run.data) THEN [m EXCEPT !.run.pc = "write"] ELSE m

\* sheet.getRange(2, emailSentColIdx + 1, out.length).setValues(out)
setValues(sheet, out) ==
  [i \in 1..Len(sheet) |->
     IF i <= Len(out) THEN [sheet[i] EXCEPT !.sent = out[i]] ELSE sheet[i]]

\* the sheets a behaviour may start from: nothing sent yet, or the first
\* row sent earlier
MergeSheets ==
  { << [recipients |-> "r1", sent |-> EmptyCell],
       [recipients |-> "r2 r3", sent |-> EmptyCell] >>,
    << [recipients |-> "r1", sent |-> StampCell(0)],
       [recipients |-> "r2 r3", sent |-> EmptyCell] >> }

InitMerge ==
  /\ SyncIdle
  /\ delegation = DelegationIdle("none")
  /\ schedule = ScheduleIdle(<<>>, {})
  /\ monitor = MonitorIdle("none", <<>>)
  /\ invites = InvitesIdle(<<>>, <<>>)
  /\ merge \in { MergeIdle(sheet) : sheet \in MergeSheets }

\* sendEmails is started and the subject prompt is cancelled or left empty
SendEmailsCancelled ==
  /\ merge.run.pc \in {"idle", "done"}
  /\ merge.runs < MaxRuns
  /\ merge' = [merge EXCEPT !.runs = @ + 1]
  /\ UNCHANGED <<syncVars, delegation, schedule, monitor, invites>>

\* sendEmails starts, at instant t, and reads the sheet
SendEmailsStarts(t) ==
  /\ merge.run.pc \in {"idle", "done"}
  /\ merge.runs < MaxRuns
  /\ now' = t
  /\ merge' = [merge EXCEPT !.runs = @ + 1,
                            !.run = [pc |-> "rows", no |-> merge.runs + 1,
                                     idx |-> 1, data |-> merge.sheet,
                                     out |-> <<>>]]
  /\ UNCHANGED <<triggers, scriptProperties, calendars, pass, lastSetup, env,
                 probe, verdict, mirrored, delegation, schedule, monitor, invites>>

\* one call of the callback in which nothing throws
MergeRowDone ==
  /\ merge.run.pc = "rows"
  /\ merge' = AfterMergeCallback(mergeCallback(merge, now, FALSE))
  /\ UNCHANGED <<syncVars, delegation, schedule, monitor, invites>>

\* one call of the callback in which the send throws
MergeRowCatches ==
  /\ merge.run.pc = "rows"
  /\ merge.run.data[merge.run.idx].sent = EmptyCell
  /\ env < MaxDisturbances
  /\ env' = env + 1
  /\ merge' = AfterMergeCallback(mergeCallback(merge, now, TRUE))
  /\ UNCHANGED <<triggers, scriptProperties, now, calendars, pass, lastSetup,
                 probe, verdict, mirrored, delegation, schedule, monitor, invites>>

\* the last statement of sendEmails
MergeWritesBack ==
  /\ merge.run.pc = "write"
  /\ merge' = [merge EXCEPT !.sheet = setValues(@, merge.run.out),
                            !.run.pc = "done"]
  /\ UNCHANGED <<syncVars, delegation, schedule, monitor, invites>>

NextMerge ==
  \/ SendEmailsCancelled
  \/ \E t \in now..MaxClock : SendEmailsStarts(t)
  \/ MergeRowDone
  \/ MergeRowCatches
  \/ MergeWritesBack

SpecMerge == InitMerge /\ [][NextMerge]_vars


(***************************************************************************)
(* Part 5: account monitoring by form (src/unnamed/part_000).  The file    *)
(* holds the script twice: the first version ("v1"), and a second one      *)
(* ("v2") that redefines every function but monitorAccounts and keeps      *)
(* track of archived accounts.  A submission adds a row to the response    *)
(* sheet and runs onFormSubmit; a time-based trigger runs monitorAccounts. *)
(***************************************************************************)
\* var allowedEmails = [...]
MonitorAllowedEmails == {"admin_1", "admin_2"}

\* mutant: everybody is allowed
MonitorIsAllowedAnyone(email) == TRUE

\* allowedEmails.includes(yourEmail)
MonitorIsAllowed(email) == email \in MonitorAllowedEmails

\* toLowerCase of the answers the form offers
LowerAnswer(text) ==
  CASE text = "Add" -> "add"
    [] text = "Remove" -> "remove"
    [] text = "30 Days" -> "30 days"
    [] text = "60 Days" -> "60 days"
    [] text = "Indefinitely" -> "indefinitely"
    [] text = "N/A" -> "n/a"
    [] OTHER -> text

\* calculateDeactivationDate at instant t: a date, or null
calculateDeactivationDate(timeframe, t) ==
  CASE LowerAnswer(timeframe) = "30 days" -> Some(t + 30 * TicksPerDay)
    [] LowerAnswer(timeframe) = "60 days" -> Some(t + 60 * TicksPerDay)
    [] LowerAnswer(timeframe) = "indefinitely" -> Null
    [] LowerAnswer(timeframe) = "n/a" -> Null
    [] OTHER -> Some(t)

\* addAccountToMonitor: sheet.appendRow([...]); wasArchived is left out by
\* the first version
addAccountToMonitor(m, userEmail, deactivateDate, formSubmitterEmail, wasArchived) ==
  [m EXCEPT !.list = Append(@,
     [account   |-> userEmail,
      date      |-> IF deactivateDate # Null
                    THEN StampCell(FormatTimestamp(The(deactivateDate)))
                    ELSE TextCell("Indefinitely"),
      submitter |-> formSubmitterEmail,
      archived  |-> IF m.script = "v1" THEN "" ELSE IF wasArchived THEN "Y" ELSE "N"])]

\* the rows of the list with the account in column A
RowsOf(list, userEmail) == { i \in 1..Len(list) : list[i].account = userEmail }

FirstRowOf(list, userEmail) ==
  CHOOSE i \in RowsOf(list, userEmail) : \A j \in RowsOf(list, userEmail) : i <= j

\* removeAccountFromMonitor: the first row with the account is deleted
removeAccountFromMonitor(m, userEmail) ==
  IF RowsOf(m.list, userEmail) = {} THEN m
  ELSE LET k == FirstRowOf(m.list, userEmail)
       IN  [m EXCEPT !.list = SubSeq(@, 1, k - 1) \o SubSeq(@, k + 1, Len(@))]

\* getArchivedStatus (second version)
getArchivedStatus(m, userEmail) ==
  IF RowsOf(m.list, userEmail) = {} THEN FALSE
  ELSE m.list[FirstRowOf(m.list, userEmail)].archived = "Y"

\* manageUserSuspension of the first version: get, set suspended, update;
\* what the directory throws is caught
manageUserSuspensionV1(m, userEmail, suspend, throws) ==
  IF throws THEN [m EXCEPT !.dirCalls = @ + 1]
  ELSE [m EXCEPT !.dirCalls = @ + 1,
                 !.directory[userEmail].suspended = suspend]

\* manageUserSuspension of the second version: the state after it and what
\* it returns, which is undefined after a throw
manageUserSuspensionV2(m, userEmail, suspend, wasArchived, throws) ==
  IF throws THEN [m |-> [m EXCEPT !.dirCalls = @ + 1], status |-> Null]
  ELSE LET isArchived  == m.directory[userEmail].archived
           isSuspended == m.directory[userEmail].suspended
           m1 == [m EXCEPT !.dirCalls = @ + 1]
           m2 == IF ~suspend /\ isArchived
                 THEN [m1 EXCEPT !.directory[userEmail].archived = FALSE] ELSE m1
           m3 == IF ~suspend /\ isSuspended
                 THEN [m2 EXCEPT !.directory[userEmail].suspended = FALSE] ELSE m2
           m4 == IF suspend /\ ~isSuspended
                 THEN [m3 EXCEPT !.directory[userEmail].suspended = TRUE,
                                 !.directory[userEmail].archived =
                                    IF wasArchived \/ isArchived THEN TRUE ELSE @]
                 ELSE m3
       IN  [m |-> m4, status |-> Some([wasArchived |-> isArchived])]

\* manageUserSuspension(userEmail, true) as monitorAccounts calls it, in the
\* version that runs
SuspendForMonitor(m, userEmail, throws) ==
  IF m.script = "v1" THEN manageUserSuspensionV1(m, userEmail, TRUE, throws)
  ELSE manageUserSuspensionV2(m, userEmail, TRUE, FALSE, throws).m

MonitorMail(m, to, subject) ==
  [m EXCEPT !.mailCalls = Append(@, [to |-> to, subject |-> subject])]

\* sendEmailNotification of the monitoring script
MonitorNotification(m, yourEmail, success) ==
  MonitorMail(m, yourEmail, IF success THEN "Form Submission Successful"
                            ELSE "Form Submission Failed")

\* the end of the try block: the completion instant and the success mail
MonitorCompleted(m, lastRow, yourEmail, t) ==
  MonitorNotification(
    [m EXCEPT !.responses[lastRow].completed = StampCell(FormatTimestamp(t))],
    yourEmail, TRUE)

\* the try block of onFormSubmit, first version
MonitorTryV1(m, e, lastRow, t, throws) ==
  LET yourEmail   == e.values[2]
      targetEmail == e.values[4]
      timeframe   == e.values[5]
  IN  IF LowerAnswer(e.values[3]) = "add"
      THEN LET m1 == manageUserSuspensionV1(m, targetEmail, FALSE, throws)
               m2 == IF LowerAnswer(timeframe) # "n/a"
                     THEN addAccountToMonitor(m1, targetEmail,
                            calculateDeactivationDate(timeframe, t), yourEmail, FALSE)
                     ELSE m1
           IN  MonitorCompleted(m2, lastRow, yourEmail, t)
      ELSE IF LowerAnswer(e.values[3]) = "remove"
      THEN MonitorCompleted(
             removeAccountFromMonitor(
               manageUserSuspensionV1(m, targetEmail, TRUE, throws), targetEmail),
             lastRow, yourEmail, t)
      ELSE MonitorCompleted(m, lastRow, yourEmail, t)

\* the try block of onFormSubmit, second version, with its catch:
\* userStatus.wasArchived of an undefined userStatus is a TypeError
MonitorTryV2(m, e, lastRow, t, throws) ==
  LET yourEmail   == e.values[2]
      targetEmail == e.values[4]
      timeframe   == e.values[5]
  IN  IF LowerAnswer(e.values[3]) = "add"
      THEN LET r == manageUserSuspensionV2(m, targetEmail, FALSE, FALSE, throws)
           IN  IF LowerAnswer(timeframe) # "n/a"
               THEN IF r.status = Null
                    THEN MonitorNotification(r.m, yourEmail, FALSE)
                    ELSE MonitorCompleted(
                           addAccountToMonitor(r.m, targetEmail,
                             calculateDeactivationDate(timeframe, t), yourEmail,
                             The(r.status).wasArchived),
                           lastRow, yourEmail, t)
               ELSE MonitorCompleted(r.m, lastRow, yourEmail, t)
      ELSE IF LowerAnswer(e.values[3]) = "remove"
      THEN LET wasArchived == getArchivedStatus(m, targetEmail)
               r == manageUserSuspensionV2(m, targetEmail, TRUE, wasArchived, throws)
           IN  MonitorCompleted(removeAccountFromMonitor(r.m, targetEmail),
                                lastRow, yourEmail, t)
      ELSE MonitorCompleted(m, lastRow, yourEmail, t)

\* onFormSubmit of the monitoring script, for the event e at instant t
MonitorOnFormSubmit(m, e, t, throws) ==
  LET lastRow   == Len(m.responses)
      yourEmail == e.values[2]
  IN  IF ~MonitorIsAllowed(yourEmail)
      THEN MonitorMail([m EXCEPT !.responses[lastRow].completed =
                                    TextCell("Not Authorized")],
                       yourEmail, "Unauthorized Access Attempt")
      ELSE IF m.script = "v1" THEN MonitorTryV1(m, e, lastRow, t, throws)
      ELSE MonitorTryV2(m, e, lastRow, t, throws)

\* new Date(data[i][1]) of the row is a date and deactivateDate <= today
DateReached(row, today) == row.date.kind = "stamp" /\ row.date.at <= today

\* the for loop of monitorAccounts from row i of the values read on;
\* failing are the accounts for which the directory throws
RECURSIVE monitorLoop(_, _, _, _, _)
monitorLoop(m, data, i, today, failing) ==
  IF i > Len(data) THEN m
  ELSE IF DateReached(data[i], today)
       THEN monitorLoop(
              MonitorMail(
                removeAccountFromMonitor(
                  SuspendForMonitor(m, data[i].account, data[i].account \in failing),
                  data[i].account),
                data[i].submitter, "Account Suspended"),
              data, i + 1, today, failing)
  ELSE monitorLoop(m, data, i + 1, today, failing)

monitorAccounts(m, today, failing) ==
  monitorLoop([m EXCEPT !.runs = @ + 1], m.list, 1, today, failing)

\* the accounts of the directory: both suspended, the second also archived
MonitorDirectory ==
  [u \in {"u1", "u2"} |-> [suspended |-> TRUE, archived |-> u = "u2"]]

\* the instants at which something happens: a start, and thirty days on
MonitorInstants == {0, 30 * TicksPerDay}

\* the form events of a submission at instant t
MonitorEvents(t) ==
  { [values |-> <<FormatTimestamp(t), "admin_1", action, target, timeframe>>] :
      action \in {"Add", "Remove"}, target \in {"u1", "u2"},
      timeframe \in {"30 Days", "Indefinitely", "N/A"} }
    \cup { [values |-> <<FormatTimestamp(t), "mallory", action, "u1", "N/A">>] :
             action \in {"Add", "Remove"} }

InitMonitor ==
  /\ SyncIdle
  /\ invites = InvitesIdle(<<>>, <<>>)
  /\ delegation = DelegationIdle("none")
  /\ schedule = ScheduleIdle(<<>>, {})
  /\ merge = MergeIdle(<<>>)
  /\ monitor \in { MonitorIdle("v1", MonitorDirectory),
                   MonitorIdle("v2", MonitorDirectory) }

\* a submission of the monitoring form and its handling
MonitorSubmitted(e, t, throws) ==
  /\ Len(monitor.responses) < MaxSubmissions
  /\ throws => env < MaxDisturbances /\ MonitorIsAllowed(e.values[2])
  /\ env' = IF throws THEN env + 1 ELSE env
  /\ now' = t
  /\ monitor' = MonitorOnFormSubmit(
       [monitor EXCEPT !.responses =
          Append(@, [values |-> e.values, completed |-> EmptyCell])],
       e, t, throws)
  /\ UNCHANGED <<triggers, scriptProperties, calendars, pass, lastSetup, probe,
                 verdict, mirrored, delegation, schedule, merge, invites>>

\* the reached rows of the list at instant t
ReachedAccounts(t) ==
  { monitor.list[i].account :
      i \in { j \in 1..Len(monitor.list) : DateReached(monitor.list[j], t) } }

\* a run of monitorAccounts at instant t
MonitorAccountsRuns(t, failing) ==
  /\ monitor.runs < MaxRuns
  /\ failing \subseteq ReachedAccounts(t)
  /\ env + Cardinality(failing) <= MaxDisturbances
  /\ env' = env + Cardinality(failing)
  /\ now' = t
  /\ monitor' = monitorAccounts(monitor, t, failing)
  /\ UNCHANGED <<triggers, scriptProperties, calendars, pass, lastSetup, probe,
                 verdict, mirrored, delegation, schedule, merge, invites>>

NextMonitor ==
  \/ \E t \in { x \in MonitorInstants : x >= now } : \E e \in MonitorEvents(t) :
       \E throws \in BOOLEAN : MonitorSubmitted(e, t, throws)
  \/ \E t \in { x \in MonitorInstants : x >= now } :
       \E failing \in SUBSET {"u1", "u2"} : MonitorAccountsRuns(t, failing)

SpecMonitor == InitMonitor /\ [][NextMonitor]_vars


(***************************************************************************)
(* Part 6: acceptance of calendar invites                                  *)
(* (src/gas_auto_accept_cal_invites.js).  A run of autoAcceptInvites goes  *)
(* through the messages of the threads its search finds, and for every     *)
(* text/calendar attachment of an unread message asks the calendar for the *)
(* event with the attachment's UID.  An .ics attachment is the sequence of *)
(* its content lines, each a property name and a value.                    *)
(***************************************************************************)
\* Session.getActiveUser().getEmail()
InvitesUserEmail == "me"

\* the first content line with the name UID, if there is one
RECURSIVE FirstUid(_)
FirstUid(icsContent) ==
  IF icsContent = <<>> THEN Null
  ELSE IF Head(icsContent).name = "UID" THEN Some(Head(icsContent).value)
  ELSE FirstUid(Tail(icsContent))

\* parseICal: icsContent.match(/UID:(.*?)(\n|\r)/) and the example fields
parseICal(icsContent) ==
  LET uidMatch == FirstUid(icsContent)
      example  == [start |-> "2024-12-04T10:00:00-05:00",
                   end |-> "2024-12-04T11:00:00-05:00",
                   summary |-> "Sample Event"]
  IN  IF uidMatch # Null
      THEN [iCalUID |-> The(uidMatch)] @@ example
      ELSE example

\* Calendar.Events.list(calendarId, {iCalUID: ..., singleEvents: true}).items
EventsWithUid(events, iCalUID) ==
  SelectSeq(events, LAMBDA ev : ev.iCalUID = iCalUID)

\* event.attendees.map(...): the running user's response becomes "accepted"
updatedAttendees(attendees) ==
  [i \in 1..Len(attendees) |->
     IF attendees[i].email = InvitesUserEmail
     THEN [attendees[i] EXCEPT !.responseStatus = "accepted"]
     ELSE attendees[i]]

\* Calendar.Events.patch({attendees: ...}, calendarId, event.id) that
\* succeeds
PatchEvent(events, id, attendees) ==
  [i \in 1..Len(events) |->
     IF events[i].id = id THEN [events[i] EXCEPT !.attendees = attendees]
     ELSE events[i]]

\* message.markRead(); message.moveToTrash()
MarkReadAndTrash(v, mi, iCalUID) ==
  [v EXCEPT !.inbox[mi].unread = FALSE,
            !.inbox[mi].trashed = TRUE,
            !.handled = Append(@, [message |-> mi, iCalUID |-> iCalUID])]

\* the body of attachments.forEach for a text/calendar attachment, after
\* the list call has returned; patchThrows: Calendar.Events.patch throws
acceptAttachment(v, mi, ai, patchThrows) ==
  LET eventDetails == parseICal(v.inbox[mi].attachments[ai].content)
      events       == EventsWithUid(v.events, eventDetails.iCalUID)
      v1 == IF Len(events) > 0 /\ Has(events[1], "attendees")
            THEN LET patch == [id |-> events[1].id,
                               attendees |-> updatedAttendees(events[1].attendees)]
                 IN  IF patchThrows
                     THEN [v EXCEPT !.patches = Append(@, patch)]
                     ELSE [v EXCEPT !.patches = Append(@, patch),
                                    !.events = PatchEvent(@, patch.id, patch.attendees)]
            ELSE v
  IN  MarkReadAndTrash(v1, mi, eventDetails.iCalUID)

\* whether the body reaches the Calendar.Events.patch call
ReachesPatch(v, mi, ai) ==
  LET events == EventsWithUid(v.events,
                  parseICal(v.inbox[mi].attachments[ai].content).iCalUID)
  IN  Len(events) > 0 /\ Has(events[1], "attendees")

\* the next text/calendar attachment the loops come to from attachment ai
\* of message mi on; message.isUnread() is asked when a message is entered
RECURSIVE SeekAttachment(_, _, _)
SeekAttachment(inbox, mi, ai) ==
  IF mi > Len(inbox) THEN <<mi, 1>>
  ELSE IF ai = 1 /\ ~inbox[mi].unread THEN SeekAttachment(inbox, mi + 1, 1)
  ELSE IF ai > Len(inbox[mi].attachments) THEN SeekAttachment(inbox, mi + 1, 1)
  ELSE IF inbox[mi].attachments[ai].type # "text/calendar"
       THEN SeekAttachment(inbox, mi, ai + 1)
  ELSE <<mi, ai>>

\* the run at the position the loops come to next, or at its end
InvitesGoOn(v, mi, ai) ==
  LET pos == SeekAttachment(v.inbox, mi, ai)
  IN  IF pos[1] > Len(v.inbox)
      THEN [v EXCEPT !.run = [pc |-> "idle", mi |-> 1, ai |-> 1]]
      ELSE [v EXCEPT !.run = [pc |-> "attachment", mi |-> pos[1], ai |-> pos[2]]]

\* .ics attachments for the events e1 and e2, and another attachment
IcsFor(uid) ==
  [type |-> "text/calendar",
   content |-> <<[name |-> "BEGIN", value |-> "VCALENDAR"],
                 [name |-> "METHOD", value |-> "REQUEST"],
                 [name |-> "UID", value |-> uid],
                 [name |-> "END", value |-> "VCALENDAR"]>>]

OtherAttachment == [type |-> "application/pdf", content |-> <<>>]

InviteMessage(unread, attachments) ==
  [unread |-> unread, trashed |-> FALSE, attachments |-> attachments]

\* the messages of the threads GmailApp.search(query) returns
InvitesInboxes ==
  { <<InviteMessage(TRUE, <<IcsFor("e1")>>)>>,
    <<InviteMessage(TRUE, <<OtherAttachment, IcsFor("e1")>>),
      InviteMessage(TRUE, <<IcsFor("e2")>>)>>,
    <<InviteMessage(FALSE, <<IcsFor("e2")>>),
      InviteMessage(TRUE, <<IcsFor("e1"), IcsFor("e2")>>)>>,
    <<InviteMessage(TRUE, <<OtherAttachment>>),
      InviteMessage(TRUE, <<IcsFor("e2")>>)>> }

\* an event of the primary calendar to which the user is invited
InvitedEvent(id, iCalUID) ==
  [id |-> id, iCalUID |-> iCalUID,
   attendees |-> <<[email |-> "organizer", responseStatus |-> "accepted"],
                   [email |-> InvitesUserEmail, responseStatus |-> "needsAction"]>>]

\* the primary calendar: both events with the user invited; the second
\* event not (yet) there; the first without attendees; the first with
\* other attendees only
InvitesCalendars ==
  { <<InvitedEvent("ev1", "e1"), InvitedEvent("ev2", "e2")>>,
    <<InvitedEvent("ev1", "e1")>>,
    <<[id |-> "ev1", iCalUID |-> "e1"], InvitedEvent("ev2", "e2")>>,
    <<[id |-> "ev1", iCalUID |-> "e1",
       attendees |-> <<[email |-> "organizer", responseStatus |-> "accepted"]>>],
      InvitedEvent("ev2", "e2")>> }

InitInvites ==
  /\ SyncIdle
  /\ delegation = DelegationIdle("none")
  /\ schedule = ScheduleIdle(<<>>, {})
  /\ merge = MergeIdle(<<>>)
  /\ monitor = MonitorIdle("none", <<>>)
  /\ invites \in { InvitesIdle(inbox, events) :
                     inbox \in InvitesInboxes, events \in InvitesCalendars }

\* autoAcceptInvites is run, by hand or by a trigger: the search and the
\* loops up to the first text/calendar attachment of an unread message
AutoAcceptInvitesStarts ==
  /\ invites.run.pc = "idle"
  /\ invites.runs < MaxRuns
  /\ invites' = InvitesGoOn([invites EXCEPT !.runs = @ + 1], 1, 1)
  /\ UNCHANGED <<syncVars, delegation, schedule, merge, monitor>>

\* the body for one attachment, no call throwing
InviteHandled ==
  /\ invites.run.pc = "attachment"
  /\ invites' = InvitesGoOn(
       acceptAttachment(invites, invites.run.mi, invites.run.ai, FALSE),
       invites.run.mi, invites.run.ai + 1)
  /\ UNCHANGED <<syncVars, delegation, schedule, merge, monitor>>

\* the body for one attachment, Calendar.Events.patch throwing: caught
InvitePatchThrows ==
  /\ invites.run.pc = "attachment"
  /\ ReachesPatch(invites, invites.run.mi, invites.run.ai)
  /\ env < MaxDisturbances
  /\ env' = env + 1
  /\ invites' = InvitesGoOn(
       acceptAttachment(invites, invites.run.mi, invites.run.ai, TRUE),
       invites.run.mi, invites.run.ai + 1)
  /\ UNCHANGED <<triggers, scriptProperties, now, calendars, pass, lastSetup,
                 probe, verdict, mirrored, delegation, schedule, merge, monitor>>

\* Calendar.Events.list throws: nothing catches it, the run ends
InviteListThrows ==
  /\ invites.run.pc = "attachment"
  /\ env < MaxDisturbances
  /\ env' = env + 1
  /\ invites' = [invites EXCEPT !.run = [pc |-> "idle", mi |-> 1, ai |-> 1]]
  /\ UNCHANGED <<triggers, scriptProperties, now, calendars, pass, lastSetup,
                 probe, verdict, mirrored, delegation, schedule, merge, monitor>>

NextInvites ==
  \/ AutoAcceptInvitesStarts
  \/ InviteHandled
  \/ InvitePatchThrows
  \/ InviteListThrows

SpecInvites == InitInvites /\ [][NextInvites]_vars


(***************************************************************************)
(* Properties of the sync script.                                          *)
(***************************************************************************)
SyncTriggers == SelectSeq(triggers, LAMBDA t : t.handler = "sync2")

SeqToSet(q) == { q[i] : i \in 1..Len(q) }

NoDuplicates(q) == \A i, j \in 1..Len(q) : q[i] = q[j] => i = j

\* a step that is a setup2 call: it creates the trigger only when none
\* exists, and otherwise raises the error and leaves the triggers alone
C1_Step ==
  (lastSetup' # lastSetup \/ triggers' # triggers) =>
    IF triggers = <<>>
    THEN lastSetup' = "created" /\ triggers' = <<SyncTrigger>>
    ELSE lastSetup' = "error" /\ triggers' = triggers

\* C1: however often setup2 is called, at most one hourly sync2 trigger
\* exists: a call made while a trigger exists raises the error and creates
\* no second trigger.
C1_SetupCreatesOneTrigger ==
  /\ [](Len(SyncTriggers) <= 1)
  /\ [][C1_Step]_vars

\* a second setup2 call has raised the error, and one trigger exists
C1_Witness ==
  /\ lastSetup = "error"
  /\ Len(SyncTriggers) = 1
  /\ \E p \in PassIds : pass[p].via = "setup2" /\ pass[p].pc = "done"

\* the steps of a run: after an import, failed or not, the run goes on with
\* the next event, the next query or the watermark write, and the write
\* stores the run's start instant
C2_Step ==
  \A p \in PassIds :
    /\ pass[p].pc = "import" => pass'[p].pc \in {"import", "list", "write"}
    /\ (pass[p].pc = "write" /\ pass'[p].pc # "write") =>
         /\ pass'[p].pc = "done"
         /\ Has(scriptProperties', "lastRun")
         /\ scriptProperties'.lastRun = DateToString(pass[p].today)

\* C2: whatever imports fail, the pass goes on and writes the watermark at
\* its end: no import outcome ends a run, a run leaves its last statement
\* only by writing lastRun, and a finished run has written it.
C2_WatermarkAlwaysWritten ==
  /\ [](\A p \in PassIds : pass[p].pc = "done" => Has(scriptProperties, "lastRun"))
  /\ [][C2_Step]_vars

\* a run has finished and written the watermark although an import failed
C2_Witness ==
  \E p \in PassIds :
    /\ pass[p].pc = "done"
    /\ \E i \in 1..Len(pass[p].imports) : ~pass[p].imports[i].ok
    /\ Has(scriptProperties, "lastRun")
    /\ scriptProperties.lastRun = DateToString(pass[p].today)

\* C3: a (user, keyword) pair one of whose list calls failed contributes no
\* event to the pass, whichever page the failure was on.
C3_FailedPairContributesNothing ==
  \A p \in PassIds :
    \A i \in 1..Len(pass[p].imports) :
      <<pass[p].imports[i].ui, pass[p].imports[i].ki>> \notin pass[p].failedPairs

\* C4: within a pass no list request (user, keyword, page token) and no
\* import (user, keyword, event) is issued twice.
C4_NothingIssuedTwice ==
  \A p \in PassIds :
    /\ NoDuplicates(pass[p].requests)
    /\ NoDuplicates([i \in 1..Len(pass[p].imports) |->
                      <<pass[p].imports[i].ui, pass[p].imports[i].ki,
                        pass[p].imports[i].source.id>>])

\* the items of the pages, in order, that pass the predicate
RECURSIVE AcceptedOfPages(_, _, _)
AcceptedOfPages(email, keyword, pages) ==
  IF pages = <<>> THEN <<>>
  ELSE SelectSeq(Head(pages).items,
                 LAMBDA item : shouldImportEvent2(email, keyword, item))
         \o AcceptedOfPages(email, keyword, Tail(pages))

\* the requests of a call follow the continuation tokens: the first has
\* none, each later one carries the token of the response before it, and
\* the last response carries none
FollowsTokens(pages) ==
  /\ pages # <<>>
  /\ pages[1].requested = Null
  /\ \A i \in 2..Len(pages) :
       /\ pages[i - 1].nextPageToken # Null
       /\ pages[i].requested = pages[i - 1].nextPageToken
  /\ pages[Len(pages)].nextPageToken = Null
  /\ NoDuplicates([i \in 1..Len(pages) |-> pages[i].requested])

\* C5: a findEvents2 call none of whose list calls failed has followed the
\* continuation tokens to the end, fetching no page twice, and returns the
\* accepted items of its pages in the provider's order.
C5_ResultIsConcatenationOfPages ==
  \A p \in PassIds :
    (pass[p].lastCall # Null /\ ~The(pass[p].lastCall).failed) =>
      LET c == The(pass[p].lastCall)
      IN  /\ FollowsTokens(c.pages)
          /\ c.result = AcceptedOfPages(USER_EMAILS2[c.ui], KEYWORDS2[c.ki], c.pages)

\* a call without failure returned the accepted items of two pages, one
\* from each, having dropped an item the predicate rejects
C5_Witness ==
  \E p \in PassIds :
    /\ pass[p].lastCall # Null
    /\ LET c == The(pass[p].lastCall)
       IN  /\ ~c.failed
           /\ Len(c.pages) = 2
           /\ Len(c.result) = 2
           /\ c.result[1] \in SeqToSet(c.pages[1].items)
           /\ c.result[2] \in SeqToSet(c.pages[2].items)
           /\ Len(c.pages[1].items) + Len(c.pages[2].items) > 2


(***************************************************************************)
(* Properties of the predicate and of the transform.                       *)
(***************************************************************************)
\* the probe, once the predicate has answered without a TypeError
Decided == verdict \in {"true", "false"}

ProbeEvent == The(probe).event

ProbeEmail == The(probe).email

ProbeKeyword == The(probe).keyword

\* the summary contains the keyword, whatever the case of either
ContainsIgnoringCase(summary, keyword) ==
  indexOf(toLowerCase(summary), toLowerCase(keyword)) >= 0

\* the test the predicate makes: the keyword as it is, in the lower-cased
\* summary
PassesKeywordTest(summary, keyword) == indexOf(toLowerCase(summary), keyword) >= 0

Weekend(event) == getUTCDay(StartInstant(event.start)) \in {0, 6}

OwnedBy(event, email) == ~Has(event, "organizer") \/ event.organizer.email = email

\* an attendee entry with self = true and responseStatus = "accepted"
SelfAccepted(event) ==
  /\ Has(event, "attendees")
  /\ \E i \in 1..Len(event.attendees) :
       event.attendees[i].self /\ event.attendees[i].responseStatus = "accepted"

\* C6: a weekday event whose summary contains the keyword, in any case, and
\* that has no organizer or is organized by the queried user is accepted.
C6_OwnWeekdayEventAccepted ==
  (/\ verdict # "none"
   /\ Has(ProbeEvent, "summary")
   /\ ContainsIgnoringCase(ProbeEvent.summary, ProbeKeyword)
   /\ ~Weekend(ProbeEvent)
   /\ OwnedBy(ProbeEvent, ProbeEmail))
  => verdict = "true"

WeekendProbesRejected ==
  \A e \in ProbeEvents : \A k \in ProbeKeywords : \A u \in {Alice, Bob} :
    (Has(e, "summary") /\ Weekend(e)) => ~shouldImportEvent2(u, k, e)

\* C8: an event that starts on a Saturday or a Sunday (UTC) is rejected
\* whatever its keyword match, organizer and attendees, so no findEvents2
\* call returns one and no pass imports one.
C8_NoWeekendEventImported ==
  /\ WeekendProbesRejected
  /\ \A p \in PassIds :
       /\ \A i \in 1..Len(pass[p].imports) : ~Weekend(pass[p].imports[i].source)
       /\ \A i \in 1..Len(pass[p].events) : ~Weekend(pass[p].events[i])

\* a pass got a Saturday event that passes the keyword test and that the
\* user accepted, left it out of the result and imported the rest
C8_Witness ==
  \E p \in PassIds :
    /\ pass[p].lastCall # Null
    /\ LET c == The(pass[p].lastCall)
       IN  \E i \in 1..Len(c.pages) : \E j \in 1..Len(c.pages[i].items) :
             LET item == c.pages[i].items[j]
             IN  /\ Weekend(item)
                 /\ PassesKeywordTest(item.summary, KEYWORDS2[c.ki])
                 /\ SelfAccepted(item)
                 /\ item \notin SeqToSet(c.result)
    /\ pass[p].imports # <<>>

\* C9: the object importEvent2 hands to the import has the summary
\* "[username] " followed by the source summary, no attendees, the team
\* calendar as its organizer and the event type 'default', whatever the
\* source's event type was.
C9_MirroredEventShape ==
  (mirrored # Null /\ Has(ProbeEvent, "summary")) =>
    LET m == The(mirrored)
    IN  /\ {"summary", "attendees", "organizer", "eventType"} \subseteq DOMAIN m
        /\ m.summary = <<"[">> \o SplitAt0(ProbeEmail) \o <<"]", " ">>
                         \o ProbeEvent.summary
        /\ m.attendees = <<>>
        /\ m.organizer = [id |-> TEAM_CALENDAR_ID2]
        /\ m.eventType = "default"

\* bob's event with attendees, a foreign organizer and no event type was
\* mirrored
C9_Witness ==
  /\ mirrored # Null
  /\ ProbeEmail = Bob
  /\ Has(ProbeEvent, "summary")
  /\ ~Has(ProbeEvent, "eventType")
  /\ Has(ProbeEvent, "attendees") /\ Len(ProbeEvent.attendees) = 2
  /\ Has(ProbeEvent, "organizer") /\ ProbeEvent.organizer.email = Carol
  /\ SubSeq(The(mirrored).summary, 1, 6) = <<"[","b","o","b","]"," ">>

\* the latest run before p that wrote the watermark
WroteBefore(p) == { q \in PassIds : q < p /\ pass[q].pc = "done" }

LastWriter(p) == CHOOSE q \in WroteBefore(p) : \A o \in WroteBefore(p) : o <= q

AllSourceEvents ==
  UNION { SeqToSet(calendars[u]) : u \in DOMAIN calendars }

\* C10 as claimed: a pass that follows a finished pass imports no event
\* last modified before the instant that pass persisted (its start), and
\* imports nothing when no source event was modified since.
C10_NoReimportSinceLastPass ==
  \A p \in PassIds :
    (pass[p].pc # "idle" /\ WroteBefore(p) # {}) =>
      LET watermark == pass[LastWriter(p)].today
      IN  /\ \A i \in 1..Len(pass[p].imports) :
               pass[p].imports[i].source.updated >= watermark
          /\ (\A e \in AllSourceEvents : e.updated < watermark)
               => pass[p].imports = <<>>

\* C10 as amended: the watermark a pass reads back is the start of the
\* earlier pass cut to whole seconds; the pass imports no event last
\* modified before that instant, and imports nothing when every source
\* event was last modified before it.
C10_NoReimportBeforeStoredWatermark ==
  \A p \in PassIds :
    (pass[p].pc # "idle" /\ pass[p].lastRun # Null) =>
      LET stored == The(pass[p].lastRun)
      IN  /\ \A i \in 1..Len(pass[p].imports) :
               pass[p].imports[i].source.updated >= stored
          /\ (\A e \in AllSourceEvents : e.updated < stored)
               => pass[p].imports = <<>>

\* a first pass imported events, and the pass after it read the watermark
\* back, found every event older and finished without an import
C10_Witness ==
  \E p, q \in PassIds :
    /\ q < p
    /\ pass[q].pc = "done" /\ pass[q].count > 0
    /\ pass[p].pc = "done" /\ pass[p].lastRun # Null
    /\ \A e \in AllSourceEvents : e.updated < The(pass[p].lastRun)
    /\ pass[p].imports = <<>> /\ pass[p].count = 0

(***************************************************************************)
(* Properties of a pass: imports per (user, keyword) pair.                 *)
(***************************************************************************)
\* the keyword's forEach body for the pair (ui, kj) has ended in the run r
PairDone(r, ui, kj) ==
  \/ r.pc \in {"write", "done"}
  \/ r.ui > ui
  \/ r.ui = ui /\ r.ki > kj

\* the positions of the imports of the run r made for (ui, ki, event id)
ImportsOf(r, ui, ki, id) ==
  { j \in 1..Len(r.imports) :
      /\ r.imports[j].ui = ui
      /\ r.imports[j].ki = ki
      /\ r.imports[j].source.id = id }

\* C11: within a pass an event is imported at most once per (user,
\* keyword) pair, and nothing dedups across keywords: an event imported for
\* one keyword that also passes the predicate for another keyword of the
\* same user, whose query has ended without a failed list call, has been
\* imported for that keyword as well.  (With a watermark an event can start
\* to match between two queries, so only later keywords are compared then.)
C11_OncePerPairNoDedupAcrossKeywords ==
  \A p \in PassIds :
    LET r == pass[p]
    IN  /\ NoDuplicates([i \in 1..Len(r.imports) |->
                          <<r.imports[i].ui, r.imports[i].ki, r.imports[i].source.id>>])
        /\ \A i \in 1..Len(r.imports) : \A kj \in 1..Len(KEYWORDS2) :
             LET m == r.imports[i]
             IN  (/\ kj # m.ki
                  /\ kj > m.ki \/ r.lastRun = Null
                  /\ PairDone(r, m.ui, kj)
                  /\ <<m.ui, kj>> \notin r.failedPairs
                  /\ shouldImportEvent2(USER_EMAILS2[m.ui], KEYWORDS2[kj], m.source))
                 => Cardinality(ImportsOf(r, m.ui, kj, m.source.id)) = 1

\* bob's "ooo pto" was imported twice in one pass, for 'pto' and for 'ooo'
C11_Witness ==
  \E p \in PassIds :
    \E i, j \in 1..Len(pass[p].imports) :
      /\ i < j
      /\ pass[p].imports[i].ui = pass[p].imports[j].ui
      /\ pass[p].imports[i].ki # pass[p].imports[j].ki
      /\ pass[p].imports[i].source.id = pass[p].imports[j].source.id
      /\ pass[p].imports[i].ok /\ pass[p].imports[j].ok

\* the imports of the run r made for its current pair, in order
ImportsOfCurrentPair(r) ==
  SelectSeq(r.imports, LAMBDA m : m.ui = r.ui /\ m.ki = r.ki)

\* a step of events.forEach: one import call for the current event, failed
\* or not, and then the next event of the same result, or the next pair, or
\* the watermark write after the last pair
C12_Step ==
  \A p \in PassIds :
    (pass[p].pc = "import" /\ pass'[p] # pass[p]) =>
      LET r == pass[p]
          n == pass'[p]
      IN  /\ Len(n.imports) = Len(r.imports) + 1
          /\ n.imports[Len(n.imports)].source = r.events[r.idx]
          /\ n.imports[Len(n.imports)].ui = r.ui
          /\ n.imports[Len(n.imports)].ki = r.ki
          /\ IF r.idx < Len(r.events)
             THEN /\ n.pc = "import" /\ n.idx = r.idx + 1
                  /\ n.events = r.events /\ n.ui = r.ui /\ n.ki = r.ki
             ELSE IF r.ki < Len(KEYWORDS2)
                  THEN n.pc = "list" /\ n.ui = r.ui /\ n.ki = r.ki + 1
             ELSE IF r.ui < Len(USER_EMAILS2)
                  THEN n.pc = "list" /\ n.ui = r.ui + 1 /\ n.ki = 1
             ELSE n.pc = "write"

\* C12: a failed import is skipped without a retry and the pass goes on:
\* each event of a result gets exactly one import call, in order, whatever
\* the calls before it answered, and a pass that reaches its last statement
\* has queried every (user, keyword) pair.
C12_ImportFailureSkipsOneEvent ==
  /\ [](\A p \in PassIds :
          /\ pass[p].pc = "import" =>
               [i \in 1..Len(ImportsOfCurrentPair(pass[p])) |->
                  ImportsOfCurrentPair(pass[p])[i].source]
                 = SubSeq(pass[p].events, 1, pass[p].idx - 1)
          /\ pass[p].pc = "write" =>
               \A ui \in 1..Len(USER_EMAILS2) : \A ki \in 1..Len(KEYWORDS2) :
                 \E i \in 1..Len(pass[p].requests) :
                   pass[p].requests[i].ui = ui /\ pass[p].requests[i].ki = ki)
  /\ [][C12_Step]_vars

\* an import failed; the next event of the same result and an event of a
\* later keyword were imported all the same, each once, and the pass
\* reached its last statement
C12_Witness ==
  \E p \in PassIds :
    /\ pass[p].pc = "write"
    /\ \E i, j, k \in 1..Len(pass[p].imports) :
         /\ i < j /\ j < k
         /\ ~pass[p].imports[i].ok
         /\ pass[p].imports[j].ui = pass[p].imports[i].ui
         /\ pass[p].imports[j].ki = pass[p].imports[i].ki
         /\ pass[p].imports[j].ok
         /\ pass[p].imports[k].ki > pass[p].imports[i].ki
         /\ Cardinality(ImportsOf(pass[p], pass[p].imports[i].ui,
                                  pass[p].imports[i].ki,
                                  pass[p].imports[i].source.id)) = 1


(***************************************************************************)
(* Properties of overlapping passes.                                       *)
(***************************************************************************)
StoredLastRun == scriptProperties.lastRun

\* a step of a run with respect to the watermark: the run reads it when it
\* starts and never again, and its write stores its own start instant
\* whatever is stored
C13_Step ==
  \A p \in PassIds :
    /\ (pass[p].pc = "idle" /\ pass'[p].pc # "idle") =>
         pass'[p].lastRun = ReadLastRun(scriptProperties)
    /\ pass[p].pc # "idle" => pass'[p].lastRun = pass[p].lastRun
    /\ (pass[p].pc = "write" /\ pass'[p].pc = "done") =>
         /\ Has(scriptProperties', "lastRun")
         /\ scriptProperties'.lastRun = DateToString(pass[p].today)
    /\ scriptProperties' # scriptProperties =>
         \E q \in PassIds : pass[q].pc = "write" /\ pass'[q].pc = "done"

\* C13: when runs overlap the watermark is last-writer-wins without any
\* detection: a run reads lastRun once, when it starts, so it never sees
\* what a run that overlaps it writes; each write stores the writer's start
\* instant whatever is stored, newer or not; and the stored value is always
\* the start instant of some finished run.
C13_WatermarkLastWriterWins ==
  /\ [](Has(scriptProperties, "lastRun") =>
          \E p \in PassIds :
            pass[p].pc = "done" /\ StoredLastRun = DateToString(pass[p].today))
  /\ [][C13_Step]_vars

\* two runs overlapped (the second started before the first had written, so
\* it read no watermark), the second wrote first and the first wrote last:
\* the stored value is the older start instant
C13_Witness ==
  \E p, q \in PassIds :
    /\ p < q
    /\ pass[p].pc = "done" /\ pass[q].pc = "done"
    /\ pass[q].via = "overlap"
    /\ pass[p].lastRun = Null /\ pass[q].lastRun = Null
    /\ DateToString(pass[p].today) < DateToString(pass[q].today)
    /\ Has(scriptProperties, "lastRun")
    /\ StoredLastRun = DateToString(pass[p].today)


(***************************************************************************)
(* Properties of the calendar delegation form.                             *)
(***************************************************************************)
\* the step is the handling of a new submission of the delegation form
DelegationHandled == Len(delegation'.sheet) = Len(delegation.sheet) + 1

\* the mail calls made by the step
NewMailCalls ==
  SubSeq(delegation'.mailCalls, Len(delegation.mailCalls) + 1,
         Len(delegation'.mailCalls))

\* the handling of a submission by somebody who is not on the allowed list
C14_Step ==
  (/\ delegation.script = "part_001"
   /\ DelegationHandled
   /\ Last(delegation'.sheet).values[2] \notin DelegationAllowedEmails) =>
    /\ Last(delegation'.sheet).completed = TextCell("Not Authorized")
    /\ SubSeq(delegation'.sheet, 1, Len(delegation.sheet)) = delegation.sheet
    /\ Len(NewMailCalls) = 1
    /\ NewMailCalls[1].to = Last(delegation'.sheet).values[2]
    /\ NewMailCalls[1].subject = "Unauthorized Access"
    /\ delegation'.aclCalls = delegation.aclCalls
    /\ delegation'.acl = delegation.acl

\* the rows of the delegation sheet submitted by somebody allowed
AllowedRows ==
  { i \in 1..Len(delegation.sheet) :
      delegation.sheet[i].values[2] \in DelegationAllowedEmails }

\* C14: the handler of src/unnamed/part_001 marks a submission of somebody
\* not on the allowed list "Not Authorized", sends that person the
\* "Unauthorized Access" mail and makes no Calendar.Acl.insert call, so the
\* insert calls and the ACL rules all stem from allowed submitters.
C14_UnauthorizedChangesNoAcl ==
  /\ [](delegation.script = "part_001" =>
          /\ Len(delegation.aclCalls) = Cardinality(AllowedRows)
          /\ Cardinality(delegation.acl) <= Cardinality(AllowedRows)
          /\ \A i \in 1..Len(delegation.sheet) :
               i \notin AllowedRows =>
                 delegation.sheet[i].completed = TextCell("Not Authorized"))
  /\ [][C14_Step]_vars

\* two submissions were turned away, one of them with the allowed address in
\* another case: both are marked and mailed, and no insert call was made
C14_Witness ==
  /\ delegation.script = "part_001"
  /\ Len(delegation.sheet) = 2
  /\ delegation.sheet[1].values[2] = "email_1"
  /\ delegation.sheet[2].values[2] = "mallory"
  /\ \A i \in 1..2 : delegation.sheet[i].completed = TextCell("Not Authorized")
  /\ Len(delegation.mailCalls) = 2
  /\ delegation.mailCalls[2].to = "mallory"
  /\ delegation.mailCalls[2].subject = "Unauthorized Access"
  /\ delegation.aclCalls = <<>> /\ delegation.acl = {}

\* the submitter of the new row is let through by the script that runs
DelegationAuthorized ==
  \/ delegation.script = "gas_gcal_delegation.js"
  \/ Last(delegation'.sheet).values[2] \in DelegationAllowedEmails

\* the handling of a submission that is let through: one insert call for
\* the submitted owner and user, the completion instant in the cell exactly
\* if the call did not throw, and one mail call to the submitter, whose
\* subject tells how the insert call ended
C15_Step ==
  (DelegationHandled /\ DelegationAuthorized) =>
    LET row  == Last(delegation'.sheet)
        call == Last(delegation'.aclCalls)
        mine == SelectSeq(NewMailCalls, LAMBDA m : m.to = row.values[2])
    IN  /\ Len(delegation'.aclCalls) = Len(delegation.aclCalls) + 1
        /\ call.calendarId = row.values[3]
        /\ call.scope.value = row.values[4]
        /\ row.completed.kind = "stamp" <=> call.ok
        /\ ~call.ok => row.completed = EmptyCell
        /\ (<<row.values[3], row.values[4], "owner">> \in delegation'.acl)
             <=> (call.ok \/ <<row.values[3], row.values[4], "owner">> \in delegation.acl)
        /\ Len(mine) = 1
        /\ mine[1].subject = IF call.ok THEN "Calendar Delegation Successful"
                             ELSE "Calendar Delegation Failed"
        /\ SubSeq(delegation'.sheet, 1, Len(delegation.sheet)) = delegation.sheet

\* the positions of the mail calls to an address with a subject
MailsTo(to, subject) ==
  { i \in 1..Len(delegation.mailCalls) :
      delegation.mailCalls[i].to = to /\ delegation.mailCalls[i].subject = subject }

\* C15: for a submission that is let through, in both versions of the
\* script, the Completed cell gets the completion instant exactly if the
\* ACL insert did not throw, the submitter is sent exactly one notification
\* and its subject (Successful / Failed) is the outcome of the insert; what
\* the insert throws never ends the handler.
C15_CompletionMatchesInsert ==
  /\ [](\A i \in 1..Len(delegation.sheet) :
          delegation.sheet[i].completed.kind = "stamp" =>
            \E j \in 1..Len(delegation.aclCalls) :
              /\ delegation.aclCalls[j].ok
              /\ delegation.aclCalls[j].calendarId = delegation.sheet[i].values[3]
              /\ delegation.aclCalls[j].scope.value = delegation.sheet[i].values[4])
  /\ [][C15_Step]_vars

\* an insert that threw left the cell empty and sent "Failed"; the next
\* submission's insert went through, stamped the cell and sent "Successful"
C15_Witness ==
  /\ Len(delegation.sheet) = 2
  /\ Len(delegation.aclCalls) = 2
  /\ ~delegation.aclCalls[1].ok /\ delegation.aclCalls[2].ok
  /\ delegation.sheet[1].completed = EmptyCell
  /\ delegation.sheet[2].completed.kind = "stamp"
  /\ delegation.sheet[1].values[2] = "Email_1"
  /\ Cardinality(MailsTo("Email_1", "Calendar Delegation Failed")) = 1
  /\ Cardinality(MailsTo(delegation.sheet[2].values[2],
                         "Calendar Delegation Successful")) = 1
  /\ Cardinality(delegation.acl) = 1


(***************************************************************************)
(* Properties of the publishing schedule script.                           *)
(***************************************************************************)
\* the events created for a row date in a member's calendar
EventsFor(date, email) ==
  { i \in 1..Len(schedule.created) :
      schedule.created[i].date = date /\ schedule.created[i].calendar = email }

\* C16: over any number of runs, also after a run in which a call threw
\* while an event was being created, at most one event exists for a (row
\* date, team-member email) key.
C16_AtMostOneEventPerKey ==
  \A i \in 1..Len(schedule.data) : \A j \in 1..Len(emailAddresses) :
    Cardinality(EventsFor(schedule.data[i].date, emailAddresses[j])) <= 1


(***************************************************************************)
(* Properties of the mail merge.                                           *)
(***************************************************************************)
\* the run under way has made a send call for row i
SentInThisRun(i) ==
  \E c \in 1..Len(merge.calls) :
    merge.calls[c].run = merge.run.no /\ merge.calls[c].row = i

\* C17: in a run of sendEmails a send call is made for a row exactly if its
\* "Email Sent" cell held no timestamp when the run read the sheet; the
\* run then leaves the send instant in the cell after a send that
\* succeeded and the error message after one that threw, and keeps the
\* value of a row that held a timestamp.
C17_SentIffNoTimestamp ==
  /\ \A i \in 1..Len(merge.run.out) :
       SentInThisRun(i) <=> merge.run.data[i].sent.kind # "stamp"
  /\ merge.run.pc = "done" =>
       \A i \in 1..Len(merge.sheet) :
         IF merge.run.data[i].sent.kind = "stamp"
         THEN merge.sheet[i].sent = merge.run.data[i].sent
         ELSE \E c \in 1..Len(merge.calls) :
                /\ merge.calls[c].run = merge.run.no /\ merge.calls[c].row = i
                /\ merge.sheet[i].sent.kind
                     = IF merge.calls[c].ok THEN "stamp" ELSE "text"


(***************************************************************************)
(* Properties of the account monitoring.                                   *)
(***************************************************************************)
\* the step is the handling of a new submission of the monitoring form
MonitorHandled == Len(monitor'.responses) = Len(monitor.responses) + 1

\* the mail calls made by the step
NewMonitorMails ==
  SubSeq(monitor'.mailCalls, Len(monitor.mailCalls) + 1, Len(monitor'.mailCalls))

\* the handling of a submission by somebody who is not on the allowed list
C18_Step ==
  (MonitorHandled
     /\ Last(monitor'.responses).values[2] \notin MonitorAllowedEmails) =>
    /\ Last(monitor'.responses).completed = TextCell("Not Authorized")
    /\ SubSeq(monitor'.responses, 1, Len(monitor.responses)) = monitor.responses
    /\ NewMonitorMails = <<[to |-> Last(monitor'.responses).values[2],
                            subject |-> "Unauthorized Access Attempt"]>>
    /\ monitor'.dirCalls = monitor.dirCalls
    /\ monitor'.directory = monitor.directory
    /\ monitor'.list = monitor.list

\* C18: in both versions a submission of somebody not on the allowed list
\* is marked "Not Authorized" and answered with the unauthorized mail, and
\* the handler returns without a directory call and without a change of
\* the directory or of the Monitored Accounts list.
C18_UnauthorizedTouchesNothing ==
  /\ [](\A i \in 1..Len(monitor.responses) :
          monitor.responses[i].values[2] \notin MonitorAllowedEmails =>
            monitor.responses[i].completed = TextCell("Not Authorized"))
  /\ [][C18_Step]_vars

\* u1 was put under monitoring, then somebody not allowed asked for its
\* removal: u1 is still active and still on the list
C18_Witness ==
  /\ Len(monitor.responses) = 2
  /\ monitor.responses[2].values[2] = "mallory"
  /\ monitor.responses[2].values[3] = "Remove"
  /\ monitor.responses[2].completed = TextCell("Not Authorized")
  /\ Last(monitor.mailCalls) = [to |-> "mallory",
                                subject |-> "Unauthorized Access Attempt"]
  /\ monitor.dirCalls = 1
  /\ ~monitor.directory["u1"].suspended
  /\ RowsOf(monitor.list, "u1") # {}

\* the handling of a submission by somebody allowed: the success mail and
\* the completion instant go with the directory change having been made,
\* and a directory call that threw is answered with the failure mail
C19_Step ==
  (MonitorHandled
     /\ Last(monitor'.responses).values[2] \in MonitorAllowedEmails) =>
    LET row     == Last(monitor'.responses)
        success == \/ row.completed.kind = "stamp"
                   \/ \E i \in 1..Len(NewMonitorMails) :
                        NewMonitorMails[i].subject = "Form Submission Successful"
    IN  /\ success =>
             monitor'.directory[row.values[4]].suspended = (row.values[3] = "Remove")
        /\ env' # env =>
             NewMonitorMails = <<[to |-> row.values[2],
                                  subject |-> "Form Submission Failed"]>>

\* C19: the "Form Submission Successful" mail and the completion instant
\* are produced only when the account is left as asked for (active after
\* Add, suspended after Remove), and a directory call that throws produces
\* the "Form Submission Failed" mail.
C19_SuccessMeansApplied == [][C19_Step]_vars

\* the rows of a list whose date is reached at the instant
ReachedRows(list, today) == { i \in 1..Len(list) : DateReached(list[i], today) }

\* a run of monitorAccounts
C20_Step ==
  monitor'.runs = monitor.runs + 1 =>
    LET before  == monitor.list
        reached == ReachedRows(before, now')
    IN  /\ \A i \in reached : monitor'.directory[before[i].account].suspended
        /\ Len(NewMonitorMails) = Cardinality(reached)
        /\ \A i \in reached :
             Cardinality({ k \in 1..Len(NewMonitorMails) :
                             NewMonitorMails[k].to = before[i].submitter })
               = Cardinality({ j \in reached :
                                 before[j].submitter = before[i].submitter })
        /\ ReachedRows(monitor'.list, now') = {}
        /\ monitor'.list = SelectSeq(before, LAMBDA row : ~DateReached(row, now'))
        /\ \A u \in DOMAIN monitor.directory :
             (\A i \in reached : before[i].account # u) =>
               monitor'.directory[u] = monitor.directory[u]

\* C20: after a run of monitorAccounts every account with a row whose date
\* was reached is suspended, the submitter of each such row has been mailed
\* once for it, no row with a reached date is left on the list, and the
\* rows with a later date or "Indefinitely" are left on the list and their
\* accounts as they were.
C20_ReachedRowsSuspendedAndRemoved == [][C20_Step]_vars

\* a step that ends the monitoring of accounts, with no directory call
\* throwing: every account whose row says 'Y' and is taken off the list
\* by the step is archived after it
C21_Step ==
  env' = env =>
    \A u \in DOMAIN monitor.directory :
      (/\ getArchivedStatus(monitor, u)
       /\ Cardinality(RowsOf(monitor'.list, u)) < Cardinality(RowsOf(monitor.list, u)))
        => monitor'.directory[u].archived

\* C21: an account that was archived before it was put under monitoring
\* (its row says 'Y') is archived again when its monitoring ends, through
\* the Remove action of the form as well as through monitorAccounts.
C21_ReArchivedWhenMonitoringEnds == [][C21_Step]_vars

\* the running user is an attendee of an event with the iCalUID and has
\* accepted
AcceptedByUser(events, iCalUID) ==
  \E i \in 1..Len(events) :
    /\ events[i].iCalUID = iCalUID
    /\ Has(events[i], "attendees")
    /\ \E k \in 1..Len(events[i].attendees) :
         /\ events[i].attendees[k].email = InvitesUserEmail
         /\ events[i].attendees[k].responseStatus = "accepted"

\* C22: for every message autoAcceptInvites has marked read and moved to
\* trash, the calendar holds the event with the UID of the attachment,
\* with the running user's response "accepted".
C22_TrashedMeansAccepted ==
  \A i \in 1..Len(invites.handled) :
    AcceptedByUser(invites.events, invites.handled[i].iCalUID)

\* C23: every sync pass terminates: whatever list and import calls fail,
\* a pass that has started ends, with the watermark written ("done") or
\* with an unhandled fault.
C23_EveryPassTerminates ==
  \A p \in PassIds : Running(pass[p]) ~> pass[p].pc \in {"done", "fault"}

\* the steps of a run, as to the watermark: it is read when the run
\* starts, before any request or import; the run's bound does not change
\* while it runs; every list request carries the bound read at the start;
\* requests are sent and imports made only before the write; the property
\* store changes only by the write that ends a run, and a run that has
\* ended stays ended
C24_Step ==
  /\ \A p \in PassIds :
       /\ (~Running(pass[p]) /\ Running(pass'[p])) =>
            /\ pass'[p].lastRun = ReadLastRun(scriptProperties)
            /\ pass'[p].requests = <<>>
            /\ pass'[p].imports = <<>>
       /\ Running(pass[p]) => pass'[p].lastRun = pass[p].lastRun
       /\ Len(pass'[p].requests) > Len(pass[p].requests) =>
            /\ pass[p].pc = "list"
            /\ Has(Last(pass'[p].requests), "updatedMin")
            /\ Last(pass'[p].requests).updatedMin =
                 IF pass[p].lastRun = Null THEN Null
                 ELSE Some(formatDateAsRFC3339_2(The(pass[p].lastRun)))
       /\ Len(pass'[p].imports) > Len(pass[p].imports) => pass[p].pc = "import"
       /\ (pass[p].pc # "write" /\ pass'[p].pc = "write") =>
            pass[p].pc \in {"list", "import"}
       /\ pass[p].pc = "write" => pass'[p].pc \in {"write", "done"}
       /\ pass[p].pc = "done" => pass'[p].pc = "done"
  /\ scriptProperties' # scriptProperties =>
       \E p \in PassIds :
         /\ pass[p].pc = "write" /\ pass'[p].pc = "done"
         /\ scriptProperties' =
              SetField(scriptProperties, "lastRun", DateToString(pass[p].today))

\* C24: a pass reads the watermark once, before its first list request,
\* and writes it once, after its last import; no request or import of the
\* pass comes after the write; every list request of the pass carries the
\* same modified-since bound.
C24_WatermarkReadOnceWrittenOnce ==
  /\ [](\A p \in PassIds :
          \A i, j \in 1..Len(pass[p].requests) :
            /\ Has(pass[p].requests[i], "updatedMin")
            /\ pass[p].requests[i].updatedMin = pass[p].requests[j].updatedMin)
  /\ [](\A p \in PassIds : pass[p].pc = "done" => Has(scriptProperties, "lastRun"))
  /\ [][C24_Step]_vars

\* the second run has ended: it read the watermark the first run wrote,
\* sent its requests for several (user, keyword) pairs with that bound,
\* imported, and wrote the watermark
C24_Witness ==
  /\ pass[2].pc = "done"
  /\ pass[2].lastRun # Null
  /\ Len(pass[2].imports) > 0
  /\ \E i, j \in 1..Len(pass[2].requests) :
       /\ pass[2].requests[i].ki # pass[2].requests[j].ki
       /\ pass[2].requests[i].updatedMin # Null
  /\ scriptProperties.lastRun = DateToString(pass[2].today)

\* the end of a run: the count logged is the number of import calls of the
\* run that succeeded
C25_Step ==
  \A p \in PassIds :
    (pass[p].pc = "write" /\ pass'[p].pc = "done") =>
      pass'[p].count =
        Cardinality({ i \in 1..Len(pass'[p].imports) : pass'[p].imports[i].ok })

\* C25: the count a pass reports at its end ('Imported N events') is the
\* number of events that were imported into the team calendar during the
\* pass.
C25_CountIsNumberImported == [][C25_Step]_vars

\* the properties that carry the payload of a specialised event type
TypePayloadFields ==
  {"outOfOfficeProperties", "focusTimeProperties", "workingLocationProperties"}

\* C26: the event handed to the import has eventType 'default' and no
\* payload of a specialised event type when the source event was not of
\* type 'default'; when it was, nothing but summary, organizer and
\* attendees differs from the source event.
C26_DowngradeDropsTypePayload ==
  mirrored # Null =>
    LET m == The(mirrored)
        e == ProbeEvent
    IN  IF Has(e, "eventType") /\ e.eventType = "default"
        THEN /\ DOMAIN m = DOMAIN e \cup {"summary", "organizer", "attendees"}
             /\ \A f \in DOMAIN e \ {"summary", "organizer", "attendees"} :
                  m[f] = e[f]
        ELSE /\ Has(m, "eventType") /\ m.eventType = "default"
             /\ DOMAIN m \cap TypePayloadFields = {}

\* the keyword has an upper-case letter
HasUpperCase(keyword) == toLowerCase(keyword) # keyword

=============================================================================
